---- MODULE Spec2Model ----
(***************************************************************************)
(* The trip planner backend (backend/src/index.ts and backend/src/clients) *)
(* as a state machine.                                                     *)
(*                                                                         *)
(* Two request handlers are modelled:                                      *)
(*   - POST /api/itinerary ("plan-trip"): validation, the concurrent       *)
(*     normalizer / airport-resolver calls joined by Promise.all, the      *)
(*     flight search adapter, the itinerary generator call, the response.  *)
(*   - POST /api/export-calendar: validation and createICSContent /        *)
(*     CalendarGenerator.generateICSContent.                               *)
(*                                                                         *)
(* JavaScript values:                                                      *)
(*   - a string is a sequence of one-character strings, "" is << >>;       *)
(*   - a value that may be undefined/null is Undefined or Def(v);          *)
(*   - an instant (a Date) is a number of minutes since 2024-01-01T00:00Z. *)
(***************************************************************************)
EXTENDS Integers, Sequences, FiniteSets, TLC

VARIABLES
    \* ---- POST /api/itinerary, one request -------------------------------
    body,         \* req.body
    pc,           \* position of the handler: idle, received, join, flight,
                  \* generate, responded
    normCall,     \* the normalizer promise (flightsData): none, pending,
                  \* fulfilled, rejected
    normResult,   \* what it settled with
    resvCall,     \* the getDepartureAirport() promise
    resvResult,   \* what it settled with
    airportAnswer,\* the airport lookup's answer, once received
    flightCall,   \* the getFlightOptions() promise: none, pending, done
    flightArgs,   \* the arguments getFlightOptions was called with
    amadeusCall,  \* the Amadeus flightOffersSearch request: none, pending, done
    amadeusAnswer,\* the offer source's answer, once received
    flights,      \* the local variable flights
    genCall,      \* the itinerary generator call: none, pending, done
    genResult,    \* what it settled with
    genArgs,      \* [arrivalDate, arrivalAirport, returnDate, returnAirport]
    responses,    \* the HTTP responses sent for the request, in order
    other,        \* a second request in progress whose handler is suspended:
                  \* the values of the variables above for it, or Undefined
    \* ---- POST /api/export-calendar, one request --------------------------
    calPc,        \* idle, received, responded
    payload,      \* req.body of the export request
    tz,           \* the server's local time zone (its standard offset)
    clock,        \* Date.now(), in milliseconds
    events,       \* the events array built by createICSContent
    calResponse,  \* the HTTP response of the export request
    exports,      \* the documents sent so far for this payload, in order
    \* ---- the page's trip form (App.tsx) ----------------------------------
    form,         \* the state variables city and dates
    loading,      \* the state variable loading
    itineraryResponse \* the state variable itineraryResponse, null at first

planVars == <<body, pc, normCall, normResult, resvCall, resvResult, airportAnswer,
              flightCall, flightArgs, amadeusCall, amadeusAnswer, flights,
              genCall, genResult, genArgs, responses, other>>
calVars == <<calPc, payload, tz, clock, events, calResponse, exports>>
frontVars == <<form, loading, itineraryResponse>>
vars == <<planVars, calVars, frontVars>>

----------------------------------------------------------------------------
\* JavaScript values

Undefined == [def |-> FALSE]
Def(v) == [def |-> TRUE, v |-> v]

\* JavaScript truthiness of an optional string: undefined and "" are falsy.
Truthy(o) == o.def /\ o.v # << >>

\* a || b on optional strings
OrElse(a, b) == IF Truthy(a) THEN a ELSE b

----------------------------------------------------------------------------
\* Strings of digits: parseInt, split, zero padding

DigitChars == <<"0", "1", "2", "3", "4", "5", "6", "7", "8", "9">>

IsDigit(c) == \E i \in 1..10 : DigitChars[i] = c

DigitValue(c) == (CHOOSE i \in 1..10 : DigitChars[i] = c) - 1

Pad2(n) == <<DigitChars[((n \div 10) % 10) + 1], DigitChars[(n % 10) + 1]>>

Pad4(n) == Pad2(n \div 100) \o Pad2(n % 100)

\* String.prototype.split(sep) for a one-character separator
RECURSIVE SplitFrom(_, _, _, _)
SplitFrom(s, sep, i, cur) ==
    IF i > Len(s) THEN <<cur>>
    ELSE IF s[i] = sep THEN <<cur>> \o SplitFrom(s, sep, i + 1, << >>)
    ELSE SplitFrom(s, sep, i + 1, Append(cur, s[i]))

Split(s, sep) == SplitFrom(s, sep, 1, << >>)

\* parseInt(string): the leading decimal digits, NaN (Undefined) when the
\* string does not start with a digit; parseInt(undefined) is NaN.
RECURSIVE LeadingDigits(_, _, _)
LeadingDigits(s, i, acc) ==
    IF i > Len(s) \/ ~IsDigit(s[i]) THEN acc
    ELSE LeadingDigits(s, i + 1, acc * 10 + DigitValue(s[i]))

ParseInt(o) ==
    IF ~o.def \/ o.v = << >> \/ ~IsDigit(o.v[1]) THEN Undefined
    ELSE Def(LeadingDigits(o.v, 1, 0))

\* array[i] of a JavaScript array (0-indexed): undefined past the end
At(arr, i) == IF i + 1 \in 1..Len(arr) THEN Def(arr[i + 1]) ELSE Undefined

----------------------------------------------------------------------------
\* Dates.  An instant is a number of minutes since 2024-01-01T00:00Z; the
\* calendar below covers the years from 2024 on.  A time zone is named by
\* its standard offset in minutes east of UTC: -300 is America/Bogota, which
\* has no daylight saving time, 60 is Europe/Paris, which has it, 0 is UTC.

IsLeap(y) == (y % 4 = 0 /\ y % 100 # 0) \/ y % 400 = 0

DaysInYear(y) == IF IsLeap(y) THEN 366 ELSE 365

DaysInMonth(y, m) ==
    IF m = 2 THEN (IF IsLeap(y) THEN 29 ELSE 28)
    ELSE IF m \in {4, 6, 9, 11} THEN 30 ELSE 31

RECURSIVE DaysBeforeYear(_)
DaysBeforeYear(y) ==
    IF y <= 2024 THEN 0 ELSE DaysInYear(y - 1) + DaysBeforeYear(y - 1)

RECURSIVE DaysBeforeMonth(_, _)
DaysBeforeMonth(y, m) ==
    IF m <= 1 THEN 0 ELSE DaysInMonth(y, m - 1) + DaysBeforeMonth(y, m - 1)

\* Date.UTC(year, monthIndex, day, hours, minutes): day, hours and minutes
\* beyond their range roll over into the following days.  monthIndex is
\* 0-based and rolls over into the following years.
UtcDate(year, monthIndex, day, hours, minutes) ==
    LET y == year + (monthIndex \div 12)
        m == (monthIndex % 12) + 1
        days == DaysBeforeYear(y) + DaysBeforeMonth(y, m) + (day - 1)
    IN  (days * 24 + hours) * 60 + minutes

\* European summer time: from 01:00 UTC of the last Sunday of March to
\* 01:00 UTC of the last Sunday of October (the years 2024 and 2025).
SummerTime ==
    {[from |-> UtcDate(2024, 2, 31, 1, 0), to |-> UtcDate(2024, 9, 27, 1, 0)],
     [from |-> UtcDate(2025, 2, 30, 1, 0), to |-> UtcDate(2025, 9, 26, 1, 0)]}

ObservesDst(zone) == zone = 60

\* the offset of local time from UTC at the instant t
OffsetAt(zone, t) ==
    IF ObservesDst(zone) /\ \E p \in SummerTime : p.from <= t /\ t < p.to
    THEN zone + 60
    ELSE zone

\* new Date(year, monthIndex, day, hours, minutes) in local time.  A local
\* time that occurs twice (the hour repeated when summer time ends) is the
\* earlier instant; one that is skipped (when summer time begins) is read
\* with the offset in force before the transition.
LocalDate(year, monthIndex, day, hours, minutes, zone) ==
    LET wall == UtcDate(year, monthIndex, day, hours, minutes)
        summer == wall - (zone + 60)
    IN  IF OffsetAt(zone, summer) = zone + 60 THEN summer ELSE wall - zone

RECURSIVE YearOfDay(_, _)
YearOfDay(n, y) ==
    IF n < DaysInYear(y) THEN <<y, n>> ELSE YearOfDay(n - DaysInYear(y), y + 1)

RECURSIVE MonthOfDay(_, _, _)
MonthOfDay(n, y, m) ==
    IF n < DaysInMonth(y, m) THEN <<m, n + 1>>
    ELSE MonthOfDay(n - DaysInMonth(y, m), y, m + 1)

\* the calendar fields of an instant in UTC
UtcFields(t) ==
    LET yd == YearOfDay(t \div 1440, 2024)
        md == MonthOfDay(yd[2], yd[1], 1)
    IN  [year |-> yd[1], month |-> md[1], day |-> md[2],
         hours |-> (t % 1440) \div 60, minutes |-> t % 60]

\* the calendar fields of an instant in the local time zone
LocalFields(t, zone) == UtcFields(t + OffsetAt(zone, t))

\* Date.prototype.getHours()
GetHours(t, zone) == LocalFields(t, zone).hours

\* Date.prototype.setHours(h, 0, 0, 0): the local day of t at h o'clock
SetHours(t, h, zone) ==
    LET f == LocalFields(t, zone)
    IN  LocalDate(f.year, f.month - 1, f.day, h, 0, zone)

\* Date.prototype.setHours(h): the minutes of t are kept
SetHoursOnly(t, h, zone) ==
    LET f == LocalFields(t, zone)
    IN  LocalDate(f.year, f.month - 1, f.day, h, f.minutes, zone)

----------------------------------------------------------------------------
\* Flight search adapter: getFlightOptions (index.ts) and
\* AmadeusClient.getFlightOptions

\* new Date("YYYY-MM-DD"): a date-only ISO string is UTC midnight of that
\* day; any other text of the samples is an Invalid Date (Undefined).
AllDigits(s) == \A i \in 1..Len(s) : IsDigit(s[i])

ParseDateString(s) ==
    LET parts == Split(s, "-")
    IN  IF /\ Len(parts) = 3
           /\ Len(parts[1]) = 4 /\ Len(parts[2]) = 2 /\ Len(parts[3]) = 2
           /\ \A i \in 1..3 : AllDigits(parts[i])
        THEN LET y == LeadingDigits(parts[1], 1, 0)
                 m == LeadingDigits(parts[2], 1, 0)
                 d == LeadingDigits(parts[3], 1, 0)
             IN  IF y >= 2024 /\ m \in 1..12 /\ d \in 1..DaysInMonth(y, m)
                 THEN Def(UtcDate(y, m - 1, d, 0, 0))
                 ELSE Undefined
        ELSE Undefined

\* date.toISOString().split('T')[0]; toISOString throws a RangeError on an
\* Invalid Date, which is Undefined here.
IsoDatePart(date) ==
    IF ~date.def THEN Undefined
    ELSE LET f == UtcFields(date.v)
         IN  Def(Pad4(f.year) \o <<"-">> \o Pad2(f.month) \o <<"-">> \o Pad2(f.day))

\* new Date(segment.departure.at): an ISO timestamp without zone is local
\* time, one that ends in "Z" is UTC
DateOfAt(at, zone) ==
    IF at.z THEN UtcDate(at.year, at.month - 1, at.day, at.hours, at.minutes)
    ELSE LocalDate(at.year, at.month - 1, at.day, at.hours, at.minutes, zone)

\* toLocaleDateString('en-UK'): DD/MM/YYYY in local time
ToLocaleDateString(t, zone) ==
    LET f == LocalFields(t, zone)
    IN  Pad2(f.day) \o <<"/">> \o Pad2(f.month) \o <<"/">> \o Pad4(f.year)

\* toLocaleTimeString('en-UK', {hour: '2-digit', minute: '2-digit'}): HH:MM
ToLocaleTimeString(t, zone) ==
    LET f == LocalFields(t, zone)
    IN  Pad2(f.hours) \o <<":">> \o Pad2(f.minutes)

ToLowerChar(c) ==
    CASE c = "H" -> "h" [] c = "M" -> "m" [] c = "S" -> "s"
      [] c = "D" -> "d" [] c = "P" -> "p" [] c = "T" -> "t"
      [] OTHER -> c

\* duration.replace('PT', '').toLowerCase(): the first "PT" is removed
RECURSIVE RemoveFirstPT(_)
RemoveFirstPT(s) ==
    IF Len(s) < 2 THEN s
    ELSE IF s[1] = "P" /\ s[2] = "T" THEN SubSeq(s, 3, Len(s))
    ELSE <<s[1]>> \o RemoveFirstPT(Tail(s))

LegDuration(duration) ==
    LET r == RemoveFirstPT(duration)
    IN  [i \in 1..Len(r) |-> ToLowerChar(r[i])]

\* One leg of the returned bundle, from an itinerary with at least one segment.
FlightLeg(offer, itin, carriers, zone) ==
    LET first == itin.segments[1]
        last == itin.segments[Len(itin.segments)]
        dep == DateOfAt(first.departure.at, zone)
        arr == DateOfAt(last.arrival.at, zone)
    IN  [price |-> offer.price.total \o <<" ">> \o offer.price.currency,
         duration |-> LegDuration(itin.duration),
         airline |-> IF first.carrierCode \in DOMAIN carriers
                        /\ carriers[first.carrierCode] # << >>
                     THEN carriers[first.carrierCode]
                     ELSE first.carrierCode,
         departure |-> [date |-> ToLocaleDateString(dep, zone),
                        time |-> ToLocaleTimeString(dep, zone),
                        airport |-> first.departure.iataCode],
         arrival |-> [date |-> ToLocaleDateString(arr, zone),
                      time |-> ToLocaleTimeString(arr, zone),
                      airport |-> last.arrival.iataCode]]

\* BestOffer taking the last offer of the response
BestOffer_Last(data) == data[Len(data)]

\* const bestOffer = flightOffers.data[0]
BestOffer(data) == data[1]

\* ReturnFlight taking the last itinerary of the offer
ReturnFlight_LastItinerary(offer) == At(offer.itineraries, Len(offer.itineraries) - 1)

\* const returnFlight = bestOffer.itineraries[1]
ReturnFlight(offer) == At(offer.itineraries, 1)

\* ReduceOffers with optional chaining on the itineraries and their segments:
\* a leg that cannot be read is left undefined and the bundle is returned
ReduceOffers_OptionalChaining(answer, zone) ==
    IF answer.threw THEN [threw |-> TRUE, value |-> Undefined]
    ELSE IF ~answer.result.def THEN [threw |-> FALSE, value |-> Undefined]
    ELSE LET r == answer.result.v
         IN  IF ~r.data.def \/ ~(Len(r.data.v) > 0)
             THEN [threw |-> FALSE, value |-> Undefined]
             ELSE LET bestOffer == BestOffer(r.data.v)
                      outbound == At(bestOffer.itineraries, 0)
                      returnFlight == ReturnFlight(bestOffer)
                      carriers == IF r.dictionaries.def THEN r.dictionaries.v
                                  ELSE << >>
                  IN  [threw |-> FALSE,
                       value |->
                         Def([outbound |->
                                IF outbound.def /\ Len(outbound.v.segments) > 0
                                THEN Def(FlightLeg(bestOffer, outbound.v, carriers, zone))
                                ELSE Undefined,
                              return |->
                                IF returnFlight.def /\ Len(returnFlight.v.segments) > 0
                                THEN Def(FlightLeg(bestOffer, returnFlight.v,
                                                   carriers, zone))
                                ELSE Undefined])]

\* The try block of getFlightOptions after the await.  answer.threw:
\* flightSearch rethrew the source's error; answer.result: response.result,
\* possibly undefined.  threw: an error left the try block (the source's
\* error, or the TypeError of reading a property of undefined); otherwise
\* value is what the block returned, Undefined when it fell through the if.
ReduceOffers(answer, zone) ==
    IF answer.threw THEN [threw |-> TRUE, value |-> Undefined]
    ELSE IF ~answer.result.def THEN [threw |-> FALSE, value |-> Undefined]
    ELSE LET r == answer.result.v
         IN  IF ~r.data.def \/ ~(Len(r.data.v) > 0)
             THEN [threw |-> FALSE, value |-> Undefined]
             ELSE LET bestOffer == BestOffer(r.data.v)
                      outbound == At(bestOffer.itineraries, 0)
                      returnFlight == ReturnFlight(bestOffer)
                  IN  IF \/ ~outbound.def
                         \/ Len(outbound.v.segments) = 0
                         \/ (returnFlight.def /\ Len(returnFlight.v.segments) = 0)
                         \/ ~r.dictionaries.def
                      THEN [threw |-> TRUE, value |-> Undefined]
                      ELSE [threw |-> FALSE,
                            value |->
                              Def([outbound |->
                                     Def(FlightLeg(bestOffer, outbound.v,
                                                   r.dictionaries.v, zone)),
                                   return |->
                                     IF returnFlight.def
                                     THEN Def(FlightLeg(bestOffer, returnFlight.v,
                                                        r.dictionaries.v, zone))
                                     ELSE Undefined])]

\* GetFlightOptions without the catch block: the error leaves the function
GetFlightOptions_NoCatch(answer, zone) ==
    LET try == ReduceOffers(answer, zone)
    IN  IF try.threw THEN [ok |-> FALSE, error |-> "Error"]
        ELSE [ok |-> TRUE, value |-> try.value]

\* What the promise of getFlightOptions settles with once the offer source
\* has answered: the catch block logs the error and the function returns
\* undefined.
GetFlightOptions(answer, zone) ==
    LET try == ReduceOffers(answer, zone)
    IN  IF try.threw THEN [ok |-> TRUE, value |-> Undefined]
        ELSE [ok |-> TRUE, value |-> try.value]

\* The part of getFlightOptions before the await: both dates converted to
\* YYYY-MM-DD.  Undefined when a conversion throws (inside the try block).
FlightParams(departureAirportIata, destinationIata, departureDate, returnDate) ==
    LET departureDateIso == IsoDatePart(ParseDateString(departureDate))
        returnDateIso == IsoDatePart(ParseDateString(returnDate))
    IN  IF ~departureDateIso.def \/ ~returnDateIso.def THEN Undefined
        ELSE Def([originLocationCode |-> departureAirportIata,
                  destinationLocationCode |-> destinationIata,
                  departureDate |-> departureDateIso.v,
                  returnDate |-> returnDateIso.v,
                  adults |-> 1])

----------------------------------------------------------------------------
\* Sample values of the collaborators' answers

Paris == <<"P", "a", "r", "i", "s">>
Bogota == <<"B", "o", "g", "o", "t", "a">>
CDG == <<"C", "D", "G">>
BOG == <<"B", "O", "G">>
MAD == <<"M", "A", "D">>
NextWeek == <<"n", "e", "x", "t", " ", "w", "e", "e", "k">>
Date0601 == <<"2", "0", "2", "5", "-", "0", "6", "-", "0", "1">>
Date0608 == <<"2", "0", "2", "5", "-", "0", "6", "-", "0", "8">>
DateWords == <<"J", "u", "n", "e">>

\* the server's local time zone: America/Bogota or Europe/Paris
TimeZones == {0 - 300, 60}

\* req.body of POST /api/itinerary
Bodies ==
    [city : {Undefined, Def(<< >>), Def(Paris)},
     dates : {Def(<< >>), Def(NextWeek)},
     lat : {Undefined, Def(4), Def(91)},
     lng : {Undefined, Def(0 - 74)}]

\* What the normalizer call settles with: a rejection (an API error, or the
\* ZodError of the SDK's schema check), or a response whose output_parsed is
\* null or the parsed object.
NormalizerParsed ==
    [arrivalCity : {[shortName |-> Paris, iata |-> CDG],
                    [shortName |-> Paris, iata |-> << >>]},
     arrivalDate : {Date0601, DateWords},
     returnCity : {[shortName |-> Bogota, iata |-> BOG]},
     returnDate : {Date0608}]

NormalizerOutcomes ==
    {[ok |-> FALSE, error |-> "Error"], [ok |-> FALSE, error |-> "ZodError"]}
    \cup {[ok |-> TRUE, value |-> [output_parsed |-> Undefined]]}
    \cup {[ok |-> TRUE, value |-> [output_parsed |-> Def(p)]] : p \in NormalizerParsed}

\* What the airport lookup answers: fetch or res.json() fails, the body has
\* no items array, or items[0] is undefined or an airport object.
ApiMarketAnswers ==
    {[threw |-> TRUE, item |-> Undefined], [threw |-> FALSE, item |-> Undefined]}
    \cup {[threw |-> FALSE, item |-> Def(a)] :
            a \in {[shortName |-> Def(Bogota), iata |-> Def(BOG)],
                   [shortName |-> Def(Bogota), iata |-> Undefined],
                   [shortName |-> Def(Bogota), iata |-> Def(<< >>)],
                   [shortName |-> Undefined, iata |-> Def(BOG)]}}

At0905 == [year |-> 2025, month |-> 6, day |-> 1, hours |-> 9, minutes |-> 5,
           z |-> FALSE]
At1940 == [year |-> 2025, month |-> 6, day |-> 1, hours |-> 19, minutes |-> 40,
           z |-> FALSE]
At2115 == [year |-> 2025, month |-> 6, day |-> 1, hours |-> 21, minutes |-> 15,
           z |-> FALSE]
At2350 == [year |-> 2025, month |-> 6, day |-> 1, hours |-> 23, minutes |-> 50,
           z |-> FALSE]
At1030 == [year |-> 2025, month |-> 6, day |-> 8, hours |-> 10, minutes |-> 30,
           z |-> FALSE]
At1545 == [year |-> 2025, month |-> 6, day |-> 8, hours |-> 15, minutes |-> 45,
           z |-> FALSE]

SegBogMad ==
    [departure |-> [iataCode |-> BOG, at |-> At0905],
     arrival |-> [iataCode |-> MAD, at |-> At1940], carrierCode |-> <<"A", "V">>]
SegMadCdg ==
    [departure |-> [iataCode |-> MAD, at |-> At2115],
     arrival |-> [iataCode |-> CDG, at |-> At2350], carrierCode |-> <<"I", "B">>]
SegCdgBog ==
    [departure |-> [iataCode |-> CDG, at |-> At1030],
     arrival |-> [iataCode |-> BOG, at |-> At1545], carrierCode |-> <<"A", "F">>]

ItinOut == [duration |-> <<"P", "T", "1", "4", "H", "4", "5", "M">>,
            segments |-> <<SegBogMad, SegMadCdg>>]
ItinRet == [duration |-> <<"P", "T", "1", "1", "H", "1", "5", "M">>,
            segments |-> <<SegCdgBog>>]
ItinNoSeg == [duration |-> <<"P", "T", "1", "H">>, segments |-> << >>]

Price850 == [total |-> <<"8", "5", "0", ".", "1", "0">>, currency |-> <<"E", "U", "R">>]
Price420 == [total |-> <<"4", "2", "0", ".", "0", "0">>, currency |-> <<"U", "S", "D">>]

OfferRound == [price |-> Price850, itineraries |-> <<ItinOut, ItinRet>>]
OfferOneWay == [price |-> Price420, itineraries |-> <<ItinOut>>]
OfferNoItin == [price |-> Price420, itineraries |-> << >>]
OfferNoSeg == [price |-> Price420, itineraries |-> <<ItinNoSeg>>]
OfferRetNoSeg == [price |-> Price420, itineraries |-> <<ItinOut, ItinNoSeg>>]

\* dictionaries.carriers: IB is not in the dictionary
Carriers == (<<"A", "V">> :> <<"A", "v", "i", "a", "n", "c", "a">>)
            @@ (<<"A", "F">> :> <<"A", "i", "r", " ", "F", "r">>)

\* What the offer source answers: an error, or response.result
AmadeusAnswers ==
    {[threw |-> TRUE, result |-> Undefined], [threw |-> FALSE, result |-> Undefined]}
    \cup {[threw |-> FALSE,
           result |-> Def([data |-> Undefined, dictionaries |-> Def(Carriers)])]}
    \cup {[threw |-> FALSE,
           result |-> Def([data |-> Def(d), dictionaries |-> Def(Carriers)])] :
            d \in {<< >>, <<OfferRound>>, <<OfferOneWay>>, <<OfferOneWay, OfferRound>>,
                   <<OfferNoItin>>, <<OfferNoSeg>>, <<OfferRetNoSeg>>}}
    \cup {[threw |-> FALSE,
           result |-> Def([data |-> Def(<<OfferRound>>), dictionaries |-> Undefined])]}

MaxOffers == 2

\* The answers of the offer source for a call of the adapter on its own:
\* every list of up to MaxOffers offers, with and without the dictionary
Offers == {OfferRound, OfferOneWay, OfferNoItin, OfferNoSeg, OfferRetNoSeg}

OfferLists == UNION {[1..n -> Offers] : n \in 0..MaxOffers}

OfferAnswers ==
    AmadeusAnswers
    \cup {[threw |-> FALSE, result |-> Def([data |-> Def(d), dictionaries |-> c])] :
            d \in OfferLists, c \in {Def(Carriers), Undefined}}

\* the arguments of a call of the adapter
SearchArgs ==
    {[departureAirportIata |-> BOG, destinationIata |-> CDG,
      departureDate |-> d, returnDate |-> Date0608] : d \in {Date0601, DateWords}}

\* Itinerary days
Louvre == <<"L", "o", "u", "v", "r", "e">>
Seine == <<"S", "e", "i", "n", "e">>
Day1215 == <<"2", "0", "2", "4", "-", "1", "2", "-", "1", "5">>
Day1216 == <<"2", "0", "2", "4", "-", "1", "2", "-", "1", "6">>
Day1231 == <<"2", "0", "2", "4", "-", "1", "2", "-", "3", "1">>
\* the eve of the end of European summer time
Day1025 == <<"2", "0", "2", "5", "-", "1", "0", "-", "2", "5">>

\* durationInHours is a JavaScript number: it is written as its whole hours,
\* with `half` set when the number is that many hours and a half (1.5, 2.5).
Activity(name, place, hours) ==
    [activity |-> name, location |-> place, durationInHours |-> hours,
     half |-> FALSE]

ActivityAndAHalf(name, place, hours) ==
    [activity |-> name, location |-> place, durationInHours |-> hours,
     half |-> TRUE]

ItineraryDay(date, number, m, a, e) ==
    [dayDate |-> date, dayNumber |-> number, morning |-> m, afternoon |-> a,
     evening |-> e]

\* What the itinerary generator call settles with
GeneratedDays ==
    {<< >>,
     <<ItineraryDay(Day1215, 1, Def(<<Activity(Louvre, Paris, 3)>>), Undefined,
                    Undefined)>>,
     <<ItineraryDay(Day1215, 1, Def(<<Activity(Louvre, Paris, 3)>>), Def(<< >>),
                    Def(<<Activity(Seine, Paris, 2)>>)),
       ItineraryDay(Day1216, 2, Undefined, Def(<<Activity(Seine, Paris, 1)>>),
                    Undefined)>>}

GeneratorOutcomes ==
    {[ok |-> FALSE, error |-> "Error"], [ok |-> FALSE, error |-> "ZodError"]}
    \cup {[ok |-> TRUE, value |-> [output_parsed |-> Undefined]]}
    \cup {[ok |-> TRUE, value |-> [output_parsed |-> Def([days |-> d])]] :
            d \in GeneratedDays}

----------------------------------------------------------------------------
\* POST /api/itinerary

Pending == [settled |-> FALSE]

\* ValidInput with the check of the destination left out
ValidInput_NoCityCheck(b) ==
    /\ b.city.def
    /\ b.dates.def /\ Len(b.dates.v) >= 1
    /\ b.lat.def /\ b.lat.v >= 0 - 90 /\ b.lat.v <= 90
    /\ b.lng.def /\ b.lng.v >= 0 - 180 /\ b.lng.v <= 180

\* ValidInput with lat and lng optional
ValidInput_OptionalLocation(b) ==
    /\ b.city.def /\ Len(b.city.v) >= 1
    /\ b.dates.def /\ Len(b.dates.v) >= 1
    /\ b.lat.def => (b.lat.v >= 0 - 90 /\ b.lat.v <= 90)
    /\ b.lng.def => (b.lng.v >= 0 - 180 /\ b.lng.v <= 180)

\* ItineraryInputSchema.parse(req.body) does not throw
ValidInput(b) ==
    /\ b.city.def /\ Len(b.city.v) >= 1
    /\ b.dates.def /\ Len(b.dates.v) >= 1
    /\ b.lat.def /\ b.lat.v >= 0 - 90 /\ b.lat.v <= 90
    /\ b.lng.def /\ b.lng.v >= 0 - 180 /\ b.lng.v <= 180

\* the catch block of the handler
ErrorResponse(error) ==
    IF error = "ZodError"
    THEN [status |-> 400, error |-> "Validation error"]
    ELSE [status |-> 500, error |-> "Failed to generate itinerary"]

\* GetDepartureAirport with the check of the IATA code left out
GetDepartureAirport_NoIataCheck(answer) ==
    IF answer.threw THEN [ok |-> FALSE, error |-> "Error"]
    ELSE IF answer.item.def /\ Truthy(answer.item.v.shortName)
         THEN [ok |-> TRUE,
               value |-> [shortName |-> answer.item.v.shortName.v,
                          iata |-> IF answer.item.v.iata.def
                                   THEN answer.item.v.iata.v ELSE << >>]]
         ELSE [ok |-> FALSE, error |-> "Error"]

\* getDepartureAirport: the settlement of its promise for an answer of the
\* airport lookup
GetDepartureAirport(answer) ==
    IF answer.threw THEN [ok |-> FALSE, error |-> "Error"]
    ELSE IF /\ answer.item.def
            /\ Truthy(answer.item.v.shortName)
            /\ Truthy(answer.item.v.iata)
         THEN [ok |-> TRUE,
               value |-> [shortName |-> answer.item.v.shortName.v,
                          iata |-> answer.item.v.iata.v]]
         ELSE [ok |-> FALSE, error |-> "Error"]

\* flights?.outbound and flights?.return
OutboundOf(fl) == IF fl.def THEN fl.v.outbound ELSE Undefined
ReturnOf(fl) == IF fl.def THEN fl.v.return ELSE Undefined

\* output_parsed?.arrivalCity?.shortName and the like
ArrivalCityOf(parsed) == IF parsed.def THEN Def(parsed.v.arrivalCity) ELSE Undefined
ReturnCityOf(parsed) == IF parsed.def THEN Def(parsed.v.returnCity) ELSE Undefined
ShortNameOf(c) == IF c.def THEN Def(c.v.shortName) ELSE Undefined
IataOf(c) == IF c.def THEN Def(c.v.iata) ELSE Undefined

\* The four context values handed to the itinerary generator
ArrivalAirport(fl, parsed) ==
    OrElse(IF OutboundOf(fl).def THEN Def(OutboundOf(fl).v.arrival.airport)
           ELSE Undefined,
           ShortNameOf(ArrivalCityOf(parsed)))

ArrivalDate(fl, parsed) ==
    IF OutboundOf(fl).def THEN Def(OutboundOf(fl).v.arrival.time) ELSE Undefined

ReturnAirport(fl, parsed) ==
    OrElse(IF ReturnOf(fl).def THEN Def(ReturnOf(fl).v.departure.airport)
           ELSE Undefined,
           ShortNameOf(ReturnCityOf(parsed)))

ReturnDate(fl, parsed) ==
    IF ReturnOf(fl).def THEN Def(ReturnOf(fl).v.departure.time) ELSE Undefined

\* The handler from the computation of the context values to the await of
\* the itinerary generator call.
IssueGenerator(fl, parsed) ==
    /\ genArgs' = Def([arrivalDate |-> ArrivalDate(fl, parsed),
                       arrivalAirport |-> ArrivalAirport(fl, parsed),
                       returnDate |-> ReturnDate(fl, parsed),
                       returnAirport |-> ReturnAirport(fl, parsed)])
    /\ genCall' = "pending"
    /\ pc' = "generate"

\* AfterJoin with the flight search left out
AfterJoin_SkipSearch(response, departureAirport) ==
    /\ IssueGenerator(Undefined, response.output_parsed)
    /\ UNCHANGED <<flightCall, flightArgs, amadeusCall, flights>>

\* AfterJoin with the itinerary generator called without awaiting the
\* flight search
AfterJoin_Concurrent(response, departureAirport) ==
    LET parsed == response.output_parsed
    IN  /\ IssueGenerator(Undefined, parsed)
        /\ IF Truthy(IataOf(ArrivalCityOf(parsed)))
           THEN /\ flightArgs' = Def([departureAirportIata |-> departureAirport.iata,
                                      destinationIata |-> parsed.v.arrivalCity.iata,
                                      departureDate |-> parsed.v.arrivalDate,
                                      returnDate |-> parsed.v.returnDate])
                /\ flightCall' = "pending"
                /\ amadeusCall' = "pending"
                /\ UNCHANGED flights
           ELSE UNCHANGED <<flightCall, flightArgs, amadeusCall, flights>>

\* The handler after Promise.all has fulfilled with the normalizer's response
\* and the departure airport: the flight search is started, or skipped.
\* When a date conversion throws inside getFlightOptions, the adapter returns
\* undefined without a request to the offer source, and the handler goes on.
AfterJoin(response, departureAirport) ==
    LET parsed == response.output_parsed
    IN  IF Truthy(IataOf(ArrivalCityOf(parsed)))
        THEN LET params == FlightParams(departureAirport.iata,
                                        parsed.v.arrivalCity.iata,
                                        parsed.v.arrivalDate,
                                        parsed.v.returnDate)
             IN  /\ flightArgs' = Def([departureAirportIata |-> departureAirport.iata,
                                       destinationIata |-> parsed.v.arrivalCity.iata,
                                       departureDate |-> parsed.v.arrivalDate,
                                       returnDate |-> parsed.v.returnDate])
                 /\ IF params.def
                    THEN /\ flightCall' = "pending"
                         /\ amadeusCall' = "pending"
                         /\ pc' = "flight"
                         /\ UNCHANGED <<flights, genCall, genArgs>>
                    ELSE /\ flightCall' = "done"
                         /\ flights' = Undefined
                         /\ IssueGenerator(Undefined, parsed)
                         /\ UNCHANGED amadeusCall
        ELSE /\ IssueGenerator(Undefined, parsed)
             /\ UNCHANGED <<flightCall, flightArgs, amadeusCall, flights>>

\* Receive with the two calls made one after the other: only the normalizer
\* call is issued before the handler waits
Receive_NormalizerFirst ==
    /\ pc = "received"
    /\ IF ValidInput(body)
       THEN /\ normCall' = "pending"
            /\ pc' = "join"
            /\ UNCHANGED <<responses, resvCall>>
       ELSE /\ responses' = Append(responses, ErrorResponse("ZodError"))
            /\ pc' = "responded"
            /\ UNCHANGED <<normCall, resvCall>>
    /\ UNCHANGED <<body, normResult, resvResult, airportAnswer, flightCall,
                   flightArgs, amadeusCall, amadeusAnswer, flights, genCall,
                   genResult, genArgs, calVars, other, frontVars>>

\* The handler from its start to the await of Promise.all.
Receive ==
    /\ pc = "received"
    /\ IF ValidInput(body)
       THEN /\ normCall' = "pending"
            /\ resvCall' = "pending"
            /\ pc' = "join"
            /\ UNCHANGED responses
       ELSE /\ responses' = Append(responses, ErrorResponse("ZodError"))
            /\ pc' = "responded"
            /\ UNCHANGED <<normCall, resvCall>>
    /\ UNCHANGED <<body, normResult, resvResult, airportAnswer, flightCall,
                   flightArgs, amadeusCall, amadeusAnswer, flights, genCall,
                   genResult, genArgs, calVars, other, frontVars>>

\* The normalizer call settles.  When the handler awaits Promise.all, it
\* resumes in the same turn: a rejection goes to the catch block, and the
\* second of the two fulfilments lets it continue.
NormalizerSettles ==
    /\ normCall = "pending"
    /\ \E out \in NormalizerOutcomes :
        /\ normResult' = out
        /\ normCall' = IF out.ok THEN "fulfilled" ELSE "rejected"
        /\ IF pc = "join" /\ ~out.ok
           THEN /\ responses' = Append(responses, ErrorResponse(out.error))
                /\ pc' = "responded"
                /\ UNCHANGED <<flightCall, flightArgs, amadeusCall, flights,
                               genCall, genArgs>>
           ELSE IF pc = "join" /\ resvCall = "fulfilled"
           THEN /\ AfterJoin(out.value, resvResult.value)
                /\ UNCHANGED responses
           ELSE UNCHANGED <<pc, responses, flightCall, flightArgs, amadeusCall,
                            flights, genCall, genArgs>>
    /\ UNCHANGED <<body, resvCall, resvResult, airportAnswer, amadeusAnswer,
                   genResult, calVars, other, frontVars>>

\* ResolverSettles with the join made by Promise.allSettled: a rejection of
\* the resolver while the normalizer is pending leaves the handler waiting
ResolverSettles_WaitsForNormalizer ==
    /\ resvCall = "pending"
    /\ \E answer \in ApiMarketAnswers :
        LET out == GetDepartureAirport(answer)
        IN  /\ airportAnswer' = Def(answer)
            /\ resvResult' = out
            /\ resvCall' = IF out.ok THEN "fulfilled" ELSE "rejected"
            /\ IF pc = "join" /\ ~out.ok /\ normCall # "pending"
               THEN /\ responses' = Append(responses, ErrorResponse(out.error))
                    /\ pc' = "responded"
                    /\ UNCHANGED <<flightCall, flightArgs, amadeusCall, flights,
                                   genCall, genArgs>>
               ELSE IF pc = "join" /\ out.ok /\ normCall = "fulfilled"
               THEN /\ AfterJoin(normResult.value, out.value)
                    /\ UNCHANGED responses
               ELSE UNCHANGED <<pc, responses, flightCall, flightArgs, amadeusCall,
                                flights, genCall, genArgs>>
    /\ UNCHANGED <<body, normCall, normResult, amadeusAnswer, genResult, calVars, other, frontVars>>

\* The getDepartureAirport() promise settles.
ResolverSettles ==
    /\ resvCall = "pending"
    /\ \E answer \in ApiMarketAnswers :
        LET out == GetDepartureAirport(answer)
        IN  /\ airportAnswer' = Def(answer)
            /\ resvResult' = out
            /\ resvCall' = IF out.ok THEN "fulfilled" ELSE "rejected"
            /\ IF pc = "join" /\ ~out.ok
               THEN /\ responses' = Append(responses, ErrorResponse(out.error))
                    /\ pc' = "responded"
                    /\ UNCHANGED <<flightCall, flightArgs, amadeusCall, flights,
                                   genCall, genArgs>>
               ELSE IF pc = "join" /\ normCall = "fulfilled"
               THEN /\ AfterJoin(normResult.value, out.value)
                    /\ UNCHANGED responses
               ELSE UNCHANGED <<pc, responses, flightCall, flightArgs, amadeusCall,
                                flights, genCall, genArgs>>
    /\ UNCHANGED <<body, normCall, normResult, amadeusAnswer, genResult, calVars, other, frontVars>>

\* The offer source answers; getFlightOptions reduces the answer and the
\* handler goes on to the itinerary generator call.
AmadeusSettles ==
    /\ amadeusCall = "pending"
    /\ pc = "flight"
    /\ \E answer \in AmadeusAnswers :
        LET out == GetFlightOptions(answer, tz)
        IN  /\ amadeusAnswer' = Def(answer)
            /\ IF out.ok
               THEN /\ flights' = out.value
                    /\ IssueGenerator(out.value, normResult.value.output_parsed)
                    /\ UNCHANGED responses
               ELSE /\ responses' = Append(responses, ErrorResponse(out.error))
                    /\ pc' = "responded"
                    /\ UNCHANGED <<flights, genCall, genArgs>>
    /\ amadeusCall' = "done"
    /\ flightCall' = "done"
    /\ UNCHANGED <<body, normCall, normResult, resvCall, resvResult, airportAnswer,
                   flightArgs, genResult, calVars, other, frontVars>>

\* The response of a request whose generator call fulfilled with `response`
SuccessResponse(response, parsed, departureAirport, fl, b) ==
    [status |-> 200,
     itinerary |-> [arrivalCity |-> ArrivalCityOf(parsed),
                    returnCity |-> ReturnCityOf(parsed),
                    days |-> response.output_parsed.v.days],
     city |-> b.city.v,
     dates |-> b.dates.v,
     departureAirport |-> departureAirport,
     flights |-> fl]

\* GeneratorSettles without the catch block: an error of the generator call
\* ends the handler with no response
GeneratorSettles_Uncaught ==
    /\ genCall = "pending"
    /\ pc = "generate"
    /\ \E out \in GeneratorOutcomes :
        /\ genResult' = out
        /\ responses' =
             IF ~out.ok \/ ~out.value.output_parsed.def THEN responses
             ELSE Append(responses,
                         SuccessResponse(out.value, normResult.value.output_parsed,
                                         resvResult.value, flights, body))
    /\ genCall' = "done"
    /\ pc' = "responded"
    /\ UNCHANGED <<body, normCall, normResult, resvCall, resvResult, airportAnswer,
                   flightCall, flightArgs, amadeusCall, amadeusAnswer, flights,
                   genArgs, calVars, other, frontVars>>

\* The itinerary generator call settles and the handler responds.  Reading
\* .days of a null output_parsed is a TypeError, caught like a rejection.
GeneratorSettles ==
    /\ genCall = "pending"
    /\ pc = "generate"
    /\ \E out \in GeneratorOutcomes :
        /\ genResult' = out
        /\ responses' = Append(responses,
            IF ~out.ok THEN ErrorResponse(out.error)
            ELSE IF ~out.value.output_parsed.def THEN ErrorResponse("TypeError")
            ELSE SuccessResponse(out.value, normResult.value.output_parsed,
                                 resvResult.value, flights, body))
    /\ genCall' = "done"
    /\ pc' = "responded"
    /\ UNCHANGED <<body, normCall, normResult, resvCall, resvResult, airportAnswer,
                   flightCall, flightArgs, amadeusCall, amadeusAnswer, flights,
                   genArgs, calVars, other, frontVars>>

\* the page before the form is submitted
FrontIdle ==
    /\ form = [city |-> << >>, dates |-> << >>]
    /\ loading = FALSE
    /\ itineraryResponse = Undefined

\* no plan-trip request in progress
PlanIdle ==
    /\ body = Undefined
    /\ pc = "idle"
    /\ normCall = "none" /\ normResult = Pending
    /\ resvCall = "none" /\ resvResult = Pending /\ airportAnswer = Undefined
    /\ flightCall = "none" /\ flightArgs = Undefined
    /\ amadeusCall = "none" /\ amadeusAnswer = Undefined /\ flights = Undefined
    /\ genCall = "none" /\ genResult = Pending /\ genArgs = Undefined
    /\ responses = << >>
    /\ other = Undefined

CalIdle ==
    /\ calPc = "idle"
    /\ payload = Undefined
    /\ clock = 0
    /\ events = << >>
    /\ calResponse = Undefined
    /\ exports = << >>

InitPlan ==
    /\ body \in Bodies
    /\ tz \in TimeZones
    /\ pc = "received"
    /\ normCall = "none" /\ normResult = Pending
    /\ resvCall = "none" /\ resvResult = Pending /\ airportAnswer = Undefined
    /\ flightCall = "none" /\ flightArgs = Undefined
    /\ amadeusCall = "none" /\ amadeusAnswer = Undefined /\ flights = Undefined
    /\ genCall = "none" /\ genResult = Pending /\ genArgs = Undefined
    /\ responses = << >>
    /\ other = Undefined
    /\ CalIdle
    /\ FrontIdle

NextPlan ==
    \/ Receive
    \/ NormalizerSettles
    \/ ResolverSettles
    \/ AmadeusSettles
    \/ GeneratorSettles

SpecPlan == InitPlan /\ [][NextPlan]_vars

\* Two requests in progress.  The variables of a request are the locals of
\* one invocation of the handler; the event loop runs one handler at a time,
\* up to its next await, and then any handler whose promise has settled.

\* the locals of the handler that is running
Running ==
    [body |-> body, pc |-> pc, normCall |-> normCall, normResult |-> normResult,
     resvCall |-> resvCall, resvResult |-> resvResult,
     airportAnswer |-> airportAnswer, flightCall |-> flightCall,
     flightArgs |-> flightArgs, amadeusCall |-> amadeusCall,
     amadeusAnswer |-> amadeusAnswer, flights |-> flights, genCall |-> genCall,
     genResult |-> genResult, genArgs |-> genArgs, responses |-> responses]

\* the locals of a handler invoked with the body b
Invoked(b) ==
    [body |-> b, pc |-> "received", normCall |-> "none", normResult |-> Pending,
     resvCall |-> "none", resvResult |-> Pending, airportAnswer |-> Undefined,
     flightCall |-> "none", flightArgs |-> Undefined, amadeusCall |-> "none",
     amadeusAnswer |-> Undefined, flights |-> Undefined, genCall |-> "none",
     genResult |-> Pending, genArgs |-> Undefined, responses |-> << >>]

\* Closure with `flights` declared outside the handler, shared by all requests
Closure_SharedFlights(suspended, running) ==
    [suspended EXCEPT !.flights = running.flights]

\* What a suspended handler finds in its variables when it resumes after
\* another handler has run: every variable of the handler is declared with
\* const or let inside the invocation, so the other handler wrote none.
Closure(suspended, running) == suspended

\* The event loop turns to the other request.
Switch ==
    /\ other.def
    /\ other.v.pc # "responded"
    /\ LET next == Closure(other.v, Running)
       IN  /\ body' = next.body
           /\ pc' = next.pc
           /\ normCall' = next.normCall
           /\ normResult' = next.normResult
           /\ resvCall' = next.resvCall
           /\ resvResult' = next.resvResult
           /\ airportAnswer' = next.airportAnswer
           /\ flightCall' = next.flightCall
           /\ flightArgs' = next.flightArgs
           /\ amadeusCall' = next.amadeusCall
           /\ amadeusAnswer' = next.amadeusAnswer
           /\ flights' = next.flights
           /\ genCall' = next.genCall
           /\ genResult' = next.genResult
           /\ genArgs' = next.genArgs
           /\ responses' = next.responses
    /\ other' = Def(Running)
    /\ UNCHANGED <<calVars, frontVars>>

\* the bodies of two concurrent requests: a trip to Paris, a trip to Bogota
\* and a request without destination
ConcurrentBodies ==
    {[city |-> c, dates |-> Def(NextWeek), lat |-> Def(4), lng |-> Def(0 - 74)] :
        c \in {Def(Paris), Def(Bogota), Def(<< >>)}}

InitConcurrent ==
    /\ body = [city |-> Def(Paris), dates |-> Def(NextWeek), lat |-> Def(4),
               lng |-> Def(0 - 74)]
    /\ tz \in TimeZones
    /\ pc = "received"
    /\ normCall = "none" /\ normResult = Pending
    /\ resvCall = "none" /\ resvResult = Pending /\ airportAnswer = Undefined
    /\ flightCall = "none" /\ flightArgs = Undefined
    /\ amadeusCall = "none" /\ amadeusAnswer = Undefined /\ flights = Undefined
    /\ genCall = "none" /\ genResult = Pending /\ genArgs = Undefined
    /\ responses = << >>
    /\ other \in {Def(Invoked(b)) : b \in ConcurrentBodies}
    /\ CalIdle
    /\ FrontIdle

NextConcurrent ==
    \/ Receive
    \/ NormalizerSettles
    \/ ResolverSettles
    \/ AmadeusSettles
    \/ GeneratorSettles
    \/ Switch

SpecConcurrent == InitConcurrent /\ [][NextConcurrent]_vars

\* One call of the flight search adapter on its own, getFlightOptions(
\* departureAirportIata, destinationIata, departureDate, returnDate): the
\* dates are converted, the offer source is asked and its answer is reduced
\* to the bundle; every error is caught and the result is undefined.
SearchFlights ==
    /\ flightCall = "pending"
    /\ flightCall' = "done"
    /\ IF FlightParams(flightArgs.v.departureAirportIata, flightArgs.v.destinationIata,
                       flightArgs.v.departureDate, flightArgs.v.returnDate).def
       THEN \E answer \in OfferAnswers :
               /\ amadeusAnswer' = Def(answer)
               /\ amadeusCall' = "done"
               /\ flights' = GetFlightOptions(answer, tz).value
       ELSE /\ flights' = Undefined
            /\ UNCHANGED <<amadeusAnswer, amadeusCall>>
    /\ UNCHANGED <<body, pc, normCall, normResult, resvCall, resvResult,
                   airportAnswer, flightArgs, genCall, genResult, genArgs,
                   responses, other, calVars, frontVars>>

InitSearch ==
    /\ tz \in TimeZones
    /\ body = Undefined
    /\ pc = "idle"
    /\ normCall = "none" /\ normResult = Pending
    /\ resvCall = "none" /\ resvResult = Pending /\ airportAnswer = Undefined
    /\ flightCall = "pending"
    /\ flightArgs \in {Def(a) : a \in SearchArgs}
    /\ amadeusCall = "none" /\ amadeusAnswer = Undefined /\ flights = Undefined
    /\ genCall = "none" /\ genResult = Pending /\ genArgs = Undefined
    /\ responses = << >>
    /\ other = Undefined
    /\ CalIdle
    /\ FrontIdle

NextSearch == SearchFlights

SpecSearch == InitSearch /\ [][NextSearch]_vars

\* The trip form of the page (handleItinerary).  The page asks the browser
\* for its position and posts the form with the coordinates, or without them
\* when the browser has no geolocation or the position is refused; the
\* promise of the POST settles with the server's response.

\* String.prototype.trim
WhiteSpace == {" ", "\n", "\t"}

RECURSIVE TrimStart(_)
TrimStart(text) ==
    IF text # << >> /\ Head(text) \in WhiteSpace THEN TrimStart(Tail(text)) ELSE text

RECURSIVE TrimEnd(_)
TrimEnd(text) ==
    IF text # << >> /\ text[Len(text)] \in WhiteSpace
    THEN TrimEnd(SubSeq(text, 1, Len(text) - 1))
    ELSE text

Trim(text) == TrimEnd(TrimStart(text))

\* what navigator.geolocation gives: no support, an error, or a position
Geolocations ==
    {[supported |-> FALSE],
     [supported |-> TRUE, granted |-> FALSE],
     [supported |-> TRUE, granted |-> TRUE, latitude |-> 4, longitude |-> 0 - 74]}

\* the arguments getLocationAndSubmit is called with
SubmitLat(geo) ==
    IF geo.supported /\ geo.granted THEN Def(geo.latitude) ELSE Undefined

SubmitLng(geo) ==
    IF geo.supported /\ geo.granted THEN Def(geo.longitude) ELSE Undefined

\* the payload getLocationAndSubmit(lat, lng) posts
SubmitPayload(f, lat, lng) ==
    [city |-> Def(Trim(f.city)),
     dates |-> Def(Trim(f.dates)),
     lat |-> IF lat.def /\ lng.def THEN lat ELSE Undefined,
     lng |-> IF lat.def /\ lng.def THEN lng ELSE Undefined]

\* the state set by the catch callback of the POST
FailureState(f) ==
    [itinerary |-> [days |-> << >>,
                    arrivalCity |-> [shortName |-> << >>, iata |-> << >>],
                    returnCity |-> [shortName |-> << >>, iata |-> << >>]],
     city |-> f.city,
     dates |-> f.dates]

\* response.data of an HTTP response
ResponseData(r) == [field \in DOMAIN r \ {"status"} |-> r[field]]

\* axios fulfils the promise for a status from 200 to 299 and rejects it for
\* any other
Fulfils(r) == r.status >= 200 /\ r.status < 300

\* handleItinerary up to the POST, with the geolocation callback that makes
\* it.  A blank city or blank dates end the handler at once.
HandleItinerary ==
    /\ pc = "idle"
    /\ ~loading
    /\ Trim(form.city) # << >>
    /\ Trim(form.dates) # << >>
    /\ loading' = TRUE
    /\ itineraryResponse' = Undefined
    /\ \E geo \in Geolocations :
          body' = SubmitPayload(form, SubmitLat(geo), SubmitLng(geo))
    /\ pc' = "received"
    /\ UNCHANGED <<form, normCall, normResult, resvCall, resvResult, airportAnswer,
                   flightCall, flightArgs, amadeusCall, amadeusAnswer, flights,
                   genCall, genResult, genArgs, responses, other, calVars>>

\* The promise of the POST settles: the then callback stores response.data,
\* the catch callback stores the failure state; finally loading is reset.
AxiosSettles ==
    /\ loading
    /\ pc = "responded"
    /\ itineraryResponse' = IF Fulfils(responses[1])
                            THEN Def(ResponseData(responses[1]))
                            ELSE Def(FailureState(form))
    /\ loading' = FALSE
    /\ UNCHANGED <<form, planVars, calVars>>

\* what the user has typed into the form
Forms ==
    [city : {<< >>, <<" ">>, Paris, <<" ">> \o Paris \o <<" ">>},
     dates : {NextWeek}]

InitFront ==
    /\ tz \in TimeZones
    /\ PlanIdle
    /\ CalIdle
    /\ form \in Forms
    /\ loading = FALSE
    /\ itineraryResponse = Undefined

NextFront ==
    \/ HandleItinerary
    \/ NextPlan
    \/ AxiosSettles

SpecFront == InitFront /\ [][NextFront]_vars

----------------------------------------------------------------------------
\* Properties of POST /api/itinerary

YourArrivalDate ==
    <<"y", "o", "u", "r", " ", "a", "r", "r", "i", "v", "a", "l", " ",
      "d", "a", "t", "e">>
YourDepartureDate ==
    <<"y", "o", "u", "r", " ", "d", "e", "p", "a", "r", "t", "u", "r", "e", " ",
      "d", "a", "t", "e">>
YourDepartureLocation ==
    <<"y", "o", "u", "r", " ", "d", "e", "p", "a", "r", "t", "u", "r", "e", " ",
      "l", "o", "c", "a", "t", "i", "o", "n">>

\* the normalizer's parsed output when the generator is called
ParsedAtGenerator == normResult.value.output_parsed

\* C2: the arrival time/date handed to the itinerary generator is the
\* outbound leg's arrival time, else the normalizer's arrival date, else
\* "your arrival date"; the return time/date is the return leg's departure
\* time, else the normalizer's return date, else "your departure date".
C2_DateFallbackChain ==
    genArgs.def =>
        /\ genArgs.v.arrivalDate =
             (IF OutboundOf(flights).def
              THEN Def(OutboundOf(flights).v.arrival.time)
              ELSE IF ParsedAtGenerator.def /\ ParsedAtGenerator.v.arrivalDate # << >>
              THEN Def(ParsedAtGenerator.v.arrivalDate)
              ELSE Def(YourArrivalDate))
        /\ genArgs.v.returnDate =
             (IF ReturnOf(flights).def
              THEN Def(ReturnOf(flights).v.departure.time)
              ELSE IF ParsedAtGenerator.def /\ ParsedAtGenerator.v.returnDate # << >>
              THEN Def(ParsedAtGenerator.v.returnDate)
              ELSE Def(YourDepartureDate))

\* C3: the arrival airport handed to the itinerary generator is the outbound
\* leg's arrival airport code, else the normalizer's arrival city short name,
\* else the raw destination string; the return airport is the return leg's
\* departure airport code, else the normalizer's return city short name, else
\* "your departure location"; neither is ever absent.
C3_AirportFallbackChain ==
    genArgs.def =>
        /\ genArgs.v.arrivalAirport =
             (IF OutboundOf(flights).def
                 /\ OutboundOf(flights).v.arrival.airport # << >>
              THEN Def(OutboundOf(flights).v.arrival.airport)
              ELSE IF Truthy(ShortNameOf(ArrivalCityOf(ParsedAtGenerator)))
              THEN ShortNameOf(ArrivalCityOf(ParsedAtGenerator))
              ELSE body.city)
        /\ genArgs.v.returnAirport =
             (IF ReturnOf(flights).def
                 /\ ReturnOf(flights).v.departure.airport # << >>
              THEN Def(ReturnOf(flights).v.departure.airport)
              ELSE IF Truthy(ShortNameOf(ReturnCityOf(ParsedAtGenerator)))
              THEN ShortNameOf(ReturnCityOf(ParsedAtGenerator))
              ELSE Def(YourDepartureLocation))

\* the airport lookup failed, or its answer lacks a short name or an IATA code
ResolverFailed ==
    /\ airportAnswer.def
    /\ \/ airportAnswer.v.threw
       \/ ~airportAnswer.v.item.def
       \/ ~Truthy(airportAnswer.v.item.v.shortName)
       \/ ~Truthy(airportAnswer.v.item.v.iata)

IsErrorResponse(r) ==
    /\ r.status \in {400, 500}
    /\ DOMAIN r = {"status", "error"}

\* C4: once the airport resolver has failed, or answered without a short
\* name or an IATA code, the request has failed as a whole: exactly one
\* response was sent, an error response carrying no itinerary, whether or not
\* the normalizer succeeded and whichever of the two calls completed first.
C4_ResolverFailureIsFatal ==
    ResolverFailed =>
        /\ pc = "responded"
        /\ Len(responses) = 1
        /\ IsErrorResponse(responses[1])
        /\ flightCall = "none" /\ genCall = "none"

\* a resolver failure after the normalizer has succeeded
C4_Witness ==
    /\ ResolverFailed
    /\ ~airportAnswer.v.threw
    /\ normCall = "fulfilled"
    /\ normResult.value.output_parsed.def

\* the normalizer failed, or returned no parsed output or an arrival city
\* without an IATA code
NormalizerFailed ==
    /\ normCall \in {"fulfilled", "rejected"}
    /\ \/ normCall = "rejected"
       \/ ~normResult.value.output_parsed.def
       \/ normResult.value.output_parsed.v.arrivalCity.iata = << >>

\* C5: when the normalizer fails or returns incomplete data, the request is
\* fatal: no response carrying an itinerary is sent.
C5_NormalizerFailureIsFatal ==
    NormalizerFailed =>
        \A i \in 1..Len(responses) : IsErrorResponse(responses[i])

\* the offer source threw, answered malformed, or returned zero offers
FlightSearchFailed ==
    /\ amadeusAnswer.def
    /\ \/ amadeusAnswer.v.threw
       \/ ~amadeusAnswer.v.result.def
       \/ ~amadeusAnswer.v.result.v.data.def
       \/ Len(amadeusAnswer.v.result.v.data.v) = 0
       \/ ~amadeusAnswer.v.result.v.dictionaries.def
       \/ Len(amadeusAnswer.v.result.v.data.v[1].itineraries) = 0
       \/ \E i \in 1..Len(amadeusAnswer.v.result.v.data.v[1].itineraries) :
            i <= 2 /\ Len(amadeusAnswer.v.result.v.data.v[1].itineraries[i].segments) = 0

GeneratorSucceeded ==
    /\ genCall = "done"
    /\ genResult.ok
    /\ genResult.value.output_parsed.def

\* C6: a failure of the flight search is swallowed by the adapter, which
\* returns undefined; the request goes on to the itinerary generator and, if
\* that succeeds, answers with a success response carrying the full days
\* array and flights = undefined.
C6_FlightFailureIsSwallowed ==
    FlightSearchFailed =>
        /\ flights = Undefined
        /\ genCall \in {"pending", "done"}
        /\ genCall = "pending" => responses = << >>
        /\ GeneratorSucceeded =>
             /\ Len(responses) = 1
             /\ responses[1].status = 200
             /\ responses[1].itinerary.days = genResult.value.output_parsed.v.days
             /\ responses[1].flights = Undefined

\* a success response after the offer source returned zero offers
C6_Witness ==
    /\ FlightSearchFailed
    /\ ~amadeusAnswer.v.threw
    /\ amadeusAnswer.v.result.def
    /\ amadeusAnswer.v.result.v.data = Def(<< >>)
    /\ GeneratorSucceeded
    /\ Len(genResult.value.output_parsed.v.days) = 2

\* C7: the flight search is never issued before both the normalizer call and
\* the airport-resolver call have completed successfully; the itinerary
\* generator call is never issued before the flight search has completed or
\* been skipped; the two are never in flight at the same time.
C7_SequentialCalls ==
    /\ (flightCall # "none" \/ amadeusCall # "none") =>
          normCall = "fulfilled" /\ resvCall = "fulfilled"
    /\ genCall # "none" =>
          /\ normCall = "fulfilled" /\ resvCall = "fulfilled"
          /\ flightCall \in {"none", "done"}
          /\ amadeusCall \in {"none", "done"}
    /\ ~(flightCall = "pending" /\ genCall = "pending")
    /\ ~(amadeusCall = "pending" /\ genCall = "pending")

\* the generator call in flight after a completed flight search
C7_Witness ==
    /\ genCall = "pending"
    /\ flightCall = "done"
    /\ amadeusCall = "done"
    /\ flights.def

\* C8: every response is either a success carrying the generator's complete
\* days array with the normalizer's arrivalCity and returnCity, sent only
\* when resolver, normalizer and generator all succeeded, or an error
\* response carrying no itinerary.
C8_AllOrNothing ==
    \A i \in 1..Len(responses) :
        \/ IsErrorResponse(responses[i])
        \/ /\ responses[i].status = 200
           /\ GeneratorSucceeded
           /\ responses[i].itinerary.days = genResult.value.output_parsed.v.days
           /\ ~ResolverFailed
           /\ ~NormalizerFailed
           /\ responses[i].itinerary.arrivalCity =
                Def(normResult.value.output_parsed.v.arrivalCity)
           /\ responses[i].itinerary.returnCity =
                Def(normResult.value.output_parsed.v.returnCity)

EmptyField(o) == o.def /\ o.v = << >>

\* C9: a request whose destination or date range is empty is rejected with
\* a validation error (400) and no call to the normalizer, the airport
\* resolver, the flight search or the itinerary generator is ever issued.
C9_EmptyInputRejected ==
    (EmptyField(body.city) \/ EmptyField(body.dates)) =>
        /\ normCall = "none" /\ resvCall = "none"
        /\ flightCall = "none" /\ amadeusCall = "none" /\ genCall = "none"
        /\ pc \in {"received", "responded"}
        /\ pc = "responded" =>
             responses = <<[status |-> 400, error |-> "Validation error"]>>

\* a rejected request whose only defect is the empty destination
C9_Witness ==
    /\ pc = "responded"
    /\ EmptyField(body.city)
    /\ body.dates = Def(NextWeek)
    /\ body.lat = Def(4) /\ body.lng.def
    /\ Len(responses) = 1

----------------------------------------------------------------------------
\* Calendar generation: createICSContent (index.ts).  The class
\* CalendarGenerator (clients/CalendarGenerator.ts) holds the same code.

\* parseDateTime(date, time): the instant of a DD/MM/YYYY date and an HH:MM
\* time read as local time.  Undefined when a field is missing or not a
\* number: the Date is then invalid and toISOString throws a RangeError.
\* (The ISO string that parseDateTime returns is read back by new Date and
\* denotes the same instant.)
ParseDateTime(date, time, zone) ==
    LET dmy == Split(date, "/")
        hm == Split(time, ":")
        day == ParseInt(At(dmy, 0))
        month == ParseInt(At(dmy, 1))
        year == ParseInt(At(dmy, 2))
        hours == ParseInt(At(hm, 0))
        minutes == ParseInt(At(hm, 1))
    IN  IF day.def /\ month.def /\ year.def /\ hours.def /\ minutes.def
        THEN Def(LocalDate(year.v, month.v - 1, day.v, hours.v, minutes.v, zone))
        ELSE Undefined

\* formatDateForICS: toISOString() without '-', ':' and the milliseconds,
\* YYYYMMDDTHHMMSSZ in UTC.  The instants of the model are whole minutes.
FormatDateForICS(t) ==
    LET f == UtcFields(t)
    IN  Pad4(f.year) \o Pad2(f.month) \o Pad2(f.day) \o <<"T">>
        \o Pad2(f.hours) \o Pad2(f.minutes) \o <<"0", "0">> \o <<"Z">>

\* text.replace(/c/g, replacement): every occurrence of the character c,
\* from left to right; the replacement is not searched again.
RECURSIVE ReplaceAll(_, _, _)
ReplaceAll(text, c, replacement) ==
    LET hits == {i \in 1..Len(text) : text[i] = c}
    IN  IF hits = {} THEN text
        ELSE LET first == CHOOSE i \in hits : \A j \in hits : i <= j
             IN  SubSeq(text, 1, first - 1) \o replacement
                 \o ReplaceAll(SubSeq(text, first + 1, Len(text)), c, replacement)

\* EscapeICSText with the backslashes replaced last
EscapeICSText_BackslashLast(text) ==
    ReplaceAll(
        ReplaceAll(
            ReplaceAll(
                ReplaceAll(text, ",", <<"\\", ",">>),
                ";", <<"\\", ";">>),
            "\n", <<"\\", "n">>),
        "\\", <<"\\", "\\">>)

\* EscapeICSText with the backslashes left as they are
EscapeICSText_KeepBackslash(text) ==
    ReplaceAll(
        ReplaceAll(
            ReplaceAll(text, ",", <<"\\", ",">>),
            ";", <<"\\", ";">>),
        "\n", <<"\\", "n">>)

\* escapeICSText: four replacements, one after the other
EscapeICSText(text) ==
    ReplaceAll(
        ReplaceAll(
            ReplaceAll(
                ReplaceAll(text, "\\", <<"\\", "\\">>),
                ",", <<"\\", ",">>),
            ";", <<"\\", ";">>),
        "\n", <<"\\", "n">>)

\* `${n}` for a number n >= 0
RECURSIVE NumberToString(_)
NumberToString(n) ==
    IF n < 10 THEN <<DigitChars[n + 1]>>
    ELSE NumberToString(n \div 10) \o <<DigitChars[(n % 10) + 1]>>

\* The event of a flight leg; kind is "outbound-flight" or "return-flight".
\* The uid `${kind}-${Date.now()}@travel-itinerary` is kept as its parts.
\* Undefined when parseDateTime throws.
FlightEvent(kind, flight, city, zone) ==
    LET departureDateTime ==
            ParseDateTime(flight.departure.date, flight.departure.time, zone)
        arrivalDateTime ==
            ParseDateTime(flight.arrival.date, flight.arrival.time, zone)
    IN  IF ~departureDateTime.def \/ ~arrivalDateTime.def THEN Undefined
        ELSE Def(
          [uid |-> [kind |-> kind, dayIndex |-> 0, index |-> 0, now |-> 0],
           summary |->
             (IF kind = "outbound-flight"
              THEN <<"[plane]", " ", "O", "u", "t", "b",
      "o", "u", "n", "d", " ", "F", "l", "i", "g", "h", "t", " ",
      "-", " ">>
              ELSE <<"[plane]", " ", "R", "e", "t", "u",
      "r", "n", " ", "F", "l", "i", "g", "h", "t", " ", "-", " ">>) \o flight.airline,
           description |->
             (IF kind = "outbound-flight"
              THEN <<"F", "l", "i", "g", "h", "t", " ", "t", "o", " ">>
              ELSE <<"R", "e", "t", "u", "r", "n", " ", "f", "l", "i", "g", "h",
      "t", " ", "f", "r", "o", "m", " ">>) \o city
             \o <<"\n", "A", "i", "r", "l", "i", "n", "e", ":", " ">> \o flight.airline
             \o <<"\n", "D", "u", "r", "a", "t", "i", "o", "n", ":", " ">> \o flight.duration
             \o <<"\n", "P", "r", "i", "c", "e", ":", " ">> \o flight.price,
           location |-> flight.departure.airport \o <<" ", "->", " ">>
                        \o flight.arrival.airport,
           dtstart |-> FormatDateForICS(departureDateTime.v),
           dtend |-> FormatDateForICS(arrivalDateTime.v)])

SlotBaseHour(slot) ==
    CASE slot = "morning" -> 9 [] slot = "afternoon" -> 13 [] slot = "evening" -> 18

SlotEmoji(slot) ==
    CASE slot = "morning" -> "[sunrise]" [] slot = "afternoon" -> "[sun]"
      [] slot = "evening" -> "[moon]"

SlotLabel(slot) ==
    CASE slot = "morning" -> <<"M", "o", "r", "n", "i", "n", "g", " ", "a", "c", "t", "i",
      "v", "i", "t", "y", " ", "i", "n", " ">>
      [] slot = "afternoon" -> <<"A", "f", "t", "e", "r", "n", "o", "o", "n", " ", "a", "c",
      "t", "i", "v", "i", "t", "y", " ", "i", "n", " ">>
      [] slot = "evening" -> <<"E", "v", "e", "n", "i", "n", "g", " ", "a", "c", "t", "i",
      "v", "i", "t", "y", " ", "i", "n", " ">>

\* the hour handed to startTime.setHours for the activity at `index`
\* (0-based) of a slot; setHours drops the fraction of its argument
StartHour(slot, activities, index) ==
    SlotBaseHour(slot) + index * activities[index + 1].durationInHours
    + (IF activities[index + 1].half THEN index \div 2 ELSE 0)

\* `${activity.durationInHours}`
DurationText(activity) ==
    NumberToString(activity.durationInHours)
    \o (IF activity.half THEN <<".", "5">> ELSE << >>)

\* The event of the activity at `index` (0-based) of a slot; dayDate is the
\* local midnight of the day.  endTime.setHours(hours + durationInHours)
\* drops the fraction of the sum.
ActivityEvent(slot, activities, index, dayIndex, dayDate, zone) ==
    LET activity == activities[index + 1]
        startTime == SetHours(dayDate, StartHour(slot, activities, index), zone)
        endTime == SetHoursOnly(startTime,
                                GetHours(startTime, zone) + activity.durationInHours,
                                zone)
    IN  [uid |-> [kind |-> slot, dayIndex |-> dayIndex, index |-> index, now |-> 0],
         summary |-> <<SlotEmoji(slot), " ">> \o activity.activity,
         description |-> SlotLabel(slot) \o activity.location
                         \o <<"\n", "D", "u", "r", "a", "t", "i", "o", "n", ":", " ">>
                         \o DurationText(activity)
                         \o <<" ", "h", "o", "u", "r", "s">>,
         location |-> activity.location,
         dtstart |-> FormatDateForICS(startTime),
         dtend |-> FormatDateForICS(endTime)]

\* the events of one slot of a day: none when the slot is absent or empty
SlotEvents(slot, list, dayIndex, dayDate, zone) ==
    IF list.def /\ Len(list.v) > 0
    THEN [i \in 1..Len(list.v) |->
            ActivityEvent(slot, list.v, i - 1, dayIndex, dayDate, zone)]
    ELSE << >>

\* day.dayDate.split('-').map(Number) and new Date(year, month - 1, dayNum)
DayDateOf(day, zone) ==
    LET parts == Split(day.dayDate, "-")
    IN  LocalDate(LeadingDigits(parts[1], 1, 0), LeadingDigits(parts[2], 1, 0) - 1,
                  LeadingDigits(parts[3], 1, 0), 0, 0, zone)

\* DayEvents with the afternoon block placed before the morning block
DayEvents_AfternoonFirst(day, dayIndex, zone) ==
    SlotEvents("afternoon", day.afternoon, dayIndex, DayDateOf(day, zone), zone)
    \o SlotEvents("morning", day.morning, dayIndex, DayDateOf(day, zone), zone)
    \o SlotEvents("evening", day.evening, dayIndex, DayDateOf(day, zone), zone)

\* the events of one day: morning, afternoon, evening
DayEvents(day, dayIndex, zone) ==
    SlotEvents("morning", day.morning, dayIndex, DayDateOf(day, zone), zone)
    \o SlotEvents("afternoon", day.afternoon, dayIndex, DayDateOf(day, zone), zone)
    \o SlotEvents("evening", day.evening, dayIndex, DayDateOf(day, zone), zone)

\* data.itinerary.days.forEach: the events of the days from `dayIndex` on
RECURSIVE DaysEvents(_, _, _)
DaysEvents(days, dayIndex, zone) ==
    IF dayIndex >= Len(days) THEN << >>
    ELSE DayEvents(days[dayIndex + 1], dayIndex, zone)
         \o DaysEvents(days, dayIndex + 1, zone)

\* PayloadReturn reading the return leg only when there is an outbound leg
PayloadReturn_NeedsOutbound(data) ==
    IF data.flights.def /\ data.flights.v.outbound.def
    THEN data.flights.v.return ELSE Undefined

\* data.flights?.outbound and data.flights?.return
PayloadOutbound(data) == IF data.flights.def THEN data.flights.v.outbound ELSE Undefined
PayloadReturn(data) == IF data.flights.def THEN data.flights.v.return ELSE Undefined

\* BuildEvents with a leg that cannot be parsed left out of the calendar
BuildEvents_SkipBadLeg(data, zone) ==
    LET out == IF PayloadOutbound(data).def
               THEN FlightEvent("outbound-flight", PayloadOutbound(data).v,
                                data.city, zone)
               ELSE Undefined
        ret == IF PayloadReturn(data).def
               THEN FlightEvent("return-flight", PayloadReturn(data).v,
                                data.city, zone)
               ELSE Undefined
    IN  Def((IF out.def THEN <<out.v>> ELSE << >>)
            \o (IF ret.def THEN <<ret.v>> ELSE << >>)
            \o DaysEvents(data.itinerary.days, 0, zone))

\* The events array at the end of the first part of createICSContent,
\* every Date.now() still to be read.  Undefined when parseDateTime throws.
BuildEvents(data, zone) ==
    LET out == IF PayloadOutbound(data).def
               THEN FlightEvent("outbound-flight", PayloadOutbound(data).v,
                                data.city, zone)
               ELSE Undefined
        ret == IF PayloadReturn(data).def
               THEN FlightEvent("return-flight", PayloadReturn(data).v,
                                data.city, zone)
               ELSE Undefined
    IN  IF \/ (PayloadOutbound(data).def /\ ~out.def)
           \/ (PayloadReturn(data).def /\ ~ret.def)
        THEN Undefined
        ELSE Def((IF out.def THEN <<out.v>> ELSE << >>)
                 \o (IF ret.def THEN <<ret.v>> ELSE << >>)
                 \o DaysEvents(data.itinerary.days, 0, zone))

\* UidText with the index of the activity left out
UidText_NoIndex(uid) ==
    IF uid.kind \in {"outbound-flight", "return-flight"}
    THEN <<uid.kind, "-">> \o NumberToString(uid.now) \o <<"@travel-itinerary">>
    ELSE <<uid.kind, "-">> \o NumberToString(uid.dayIndex) \o <<"-">>
         \o NumberToString(uid.now) \o <<"@travel-itinerary">>

\* The text of a uid: `outbound-flight-${Date.now()}@travel-itinerary`,
\* `morning-${dayIndex}-${index}-${Date.now()}@travel-itinerary`
UidText(uid) ==
    IF uid.kind \in {"outbound-flight", "return-flight"}
    THEN <<uid.kind, "-">> \o NumberToString(uid.now) \o <<"@travel-itinerary">>
    ELSE <<uid.kind, "-">> \o NumberToString(uid.dayIndex) \o <<"-">>
         \o NumberToString(uid.index) \o <<"-">> \o NumberToString(uid.now)
         \o <<"@travel-itinerary">>

\* The events with the readings of Date.now(): the event pushed i-th read
\* nows[i].
StampEvents(evs, nows) ==
    [i \in 1..Len(evs) |-> [evs[i] EXCEPT !.uid.now = nows[i]]]

Line(name, value) == [name |-> name, value |-> value]

\* the VEVENT block of an event; stamp is the instant of new Date()
EventBlock(event, stamp) ==
    <<Line("BEGIN", "VEVENT"),
      Line("UID", event.uid),
      Line("DTSTART", event.dtstart),
      Line("DTEND", event.dtend),
      Line("SUMMARY", EscapeICSText(event.summary)),
      Line("DESCRIPTION", EscapeICSText(event.description)),
      Line("LOCATION", EscapeICSText(event.location)),
      Line("DTSTAMP", FormatDateForICS(stamp)),
      Line("END", "VEVENT")>>

RECURSIVE EventBlocks(_, _, _)
EventBlocks(evs, i, stamp) ==
    IF i > Len(evs) THEN << >>
    ELSE EventBlock(evs[i], stamp) \o EventBlocks(evs, i + 1, stamp)

\* icsContent: the document as the sequence of its lines
Document(evs, stamp) ==
    <<Line("BEGIN", "VCALENDAR"), Line("VERSION", "2.0"),
      Line("PRODID", "-//Travel Itinerary//EN"), Line("CALSCALE", "GREGORIAN")>>
    \o EventBlocks(evs, 1, stamp)
    \o <<Line("END", "VCALENDAR")>>

AsciiAlphanumerics ==
    {"a", "b", "c", "d", "e", "f", "g", "h", "i", "j", "k", "l", "m", "n", "o",
     "p", "q", "r", "s", "t", "u", "v", "w", "x", "y", "z",
     "A", "B", "C", "D", "E", "F", "G", "H", "I", "J", "K", "L", "M", "N", "O",
     "P", "Q", "R", "S", "T", "U", "V", "W", "X", "Y", "Z",
     "0", "1", "2", "3", "4", "5", "6", "7", "8", "9"}

\* CalendarFilename with runs of replaced characters collapsed into one "_"
CalendarFilename_Collapsed(city) ==
    SelectSeq([i \in 1..Len(city) |->
                 IF city[i] \in AsciiAlphanumerics THEN city[i]
                 ELSE IF i > 1 /\ city[i - 1] \notin AsciiAlphanumerics THEN ""
                 ELSE "_"],
              LAMBDA c : c # "")
    \o <<"_", "i", "t", "i", "n", "e", "r", "a", "r", "y", ".", "i",
      "c", "s">>

\* `${city.replace(/[^a-zA-Z0-9]/g, '_')}_itinerary.ics`
CalendarFilename(city) ==
    [i \in 1..Len(city) |-> IF city[i] \in AsciiAlphanumerics THEN city[i] ELSE "_"]
    \o <<"_", "i", "t", "i", "n", "e", "r", "a", "r", "y", ".", "i",
      "c", "s">>

----------------------------------------------------------------------------
\* POST /api/export-calendar

\* Bounds of the sampled payloads and of the clock
MaxActs == 2
MaxDays == 2
MaxText == 2
MaxExports == 2
MaxClock == 2

\* durations in hours; the long one carries an evening past midnight
Durations == {1, 2, 3, 8}

Slots == {"morning", "afternoon", "evening"}

\* the lists of durations of the activities of a slot
DurationLists == UNION {[1..n -> Durations] : n \in 1..MaxActs}

CityParis == [shortName |-> Paris, iata |-> CDG]
CityBogota == [shortName |-> Bogota, iata |-> BOG]

Payload(days, fl) ==
    [itinerary |-> [days |-> days, arrivalCity |-> CityParis, returnCity |-> CityBogota],
     city |-> Paris, dates |-> NextWeek, flights |-> fl]

\* One day whose only slot `slot` holds activities of the durations durs
TimingDay(date, slot, durs) ==
    LET acts == [i \in 1..Len(durs) |-> Activity(Louvre, Paris, durs[i])]
    IN  ItineraryDay(date, 1,
                     IF slot = "morning" THEN Def(acts) ELSE Undefined,
                     IF slot = "afternoon" THEN Def(acts) ELSE Undefined,
                     IF slot = "evening" THEN Def(acts) ELSE Undefined)

TimingPayloads ==
    {Payload(<<TimingDay(date, slot, durs)>>, Undefined) :
        date \in {Day1215, Day1231, Day1025}, slot \in Slots, durs \in DurationLists}

Montmartre == <<"M", "o", "n", "t", "m", "a", "r", "t", "r", "e">>
Bistro == <<"B", "i", "s", "t", "r", "o", ";", " ", "w", "i", "n", "e">>
ParisFr == <<"P", "a", "r", "i", "s", ",", " ", "F", "r">>
Cruise == <<"C", "r", "u", "i", "s", "e">>

\* Shapes of a day: which slots are absent, empty or filled
DayShapes ==
    <<[morning |-> Undefined, afternoon |-> Undefined, evening |-> Undefined],
      [morning |-> Def(<< >>), afternoon |-> Def(<< >>), evening |-> Def(<< >>)],
      [morning |-> Def(<<Activity(Louvre, ParisFr, 2), Activity(Seine, Paris, 1)>>),
       afternoon |-> Def(<<Activity(Montmartre, Paris, 4)>>),
       evening |-> Def(<<Activity(Bistro, Paris, 2)>>)],
      [morning |-> Undefined,
       afternoon |-> Def(<<Activity(Montmartre, Paris, 2)>>),
       evening |-> Def(<<Activity(Bistro, ParisFr, 1), Activity(Cruise, Seine, 3)>>)]>>

\* the dayDate of the i-th day of a sampled itinerary: 2024-12-15 onwards
DateOfDay(i) == <<"2", "0", "2", "4", "-", "1", "2", "-">> \o Pad2(14 + i)

StructureDays ==
    UNION {{[i \in 1..n |->
                ItineraryDay(DateOfDay(i), i, DayShapes[shape[i]].morning,
                             DayShapes[shape[i]].afternoon,
                             DayShapes[shape[i]].evening)] :
              shape \in [1..n -> 1..Len(DayShapes)]} : n \in 0..MaxDays}

\* the legs the flight search adapter renders in time zone `zone`
RoundTrip(zone) ==
    ReduceOffers([threw |-> FALSE,
                  result |-> Def([data |-> Def(<<OfferRound>>),
                                  dictionaries |-> Def(Carriers)])], zone).value.v

FlightBundles(zone) ==
    {Undefined,
     Def([outbound |-> Undefined, return |-> Undefined]),
     Def(RoundTrip(zone)),
     Def([outbound |-> RoundTrip(zone).outbound, return |-> Undefined]),
     Def([outbound |-> Undefined, return |-> RoundTrip(zone).return])}

StructurePayloads(zone) ==
    {Payload(days, fl) : days \in StructureDays, fl \in FlightBundles(zone)}

\* a leg whose departure date is not DD/MM/YYYY
BadLeg(zone) ==
    [RoundTrip(zone).outbound.v EXCEPT !.departure.date = Date0601]

\* legs whose time has no minutes, whose time is empty, whose day is not a
\* number
BadLegs(zone) ==
    {BadLeg(zone),
     [RoundTrip(zone).outbound.v EXCEPT !.arrival.time = <<"1", "0">>],
     [RoundTrip(zone).outbound.v EXCEPT !.departure.time = << >>],
     [RoundTrip(zone).outbound.v EXCEPT
        !.arrival.date = <<"a", "a", "/", "0", "6", "/", "2", "0", "2", "5">>]}

\* legs that are not as the adapter renders them, but whose five fields
\* start with digits: "9:05 PM" on "1/6/2025"
OddLeg(zone) ==
    [RoundTrip(zone).outbound.v EXCEPT
        !.departure.date = <<"1", "/", "6", "/", "2", "0", "2", "5">>,
        !.departure.time = <<"9", ":", "0", "5", " ", "P", "M">>]

\* payloads that generation or validation refuses, and one with an odd leg
RefusedPayloads(zone) ==
    {Payload(<<TimingDay(Day1215, "morning", <<0>>)>>, Undefined),
     Payload(<<TimingDay(DateWords, "morning", <<1>>)>>, Undefined),
     Payload(<<ItineraryDay(Day1215, 0, Undefined, Undefined, Undefined)>>, Undefined),
     Payload(<<ItineraryDay(Day1215, 1, Undefined,
                            Def(<<Activity(<< >>, Paris, 1)>>), Undefined)>>,
             Def([outbound |-> Def(BadLeg(zone)), return |-> Undefined])),
     Payload(<< >>, Def([outbound |-> Def(OddLeg(zone)), return |-> Undefined]))}
    \cup {Payload(<< >>, Def([outbound |-> Def(leg), return |-> Undefined])) :
             leg \in BadLegs(zone)}
    \cup {Payload(<<TimingDay(Day1215, "morning", <<1>>)>>,
                  Def([outbound |-> RoundTrip(zone).outbound, return |-> Def(leg)])) :
             leg \in BadLegs(zone)}

\* the strings of at most n characters over an alphabet
RECURSIVE TextsOver(_, _)
TextsOver(alphabet, n) ==
    IF n = 0 THEN {<< >>}
    ELSE LET shorter == TextsOver(alphabet, n - 1)
         IN  shorter \cup {Append(t, c) : t \in shorter, c \in alphabet}

\* texts with the four characters escapeICSText replaces
EscapeAlphabet == {"a", "n", "\\", ",", ";", "\n"}
EscapeTexts == TextsOver(EscapeAlphabet, MaxText) \ {<< >>}
AllFour == <<"\\", ",", ";", "\n">>

\* one morning activity whose name or location is such a text
EscapePayloads ==
    {Payload(<<ItineraryDay(Day1215, 1, Def(<<Activity(name, place, 1)>>),
                            Undefined, Undefined)>>, Undefined) :
        name \in EscapeTexts, place \in {Paris, AllFour}}
    \cup {Payload(<<ItineraryDay(Day1215, 1, Def(<<Activity(Louvre, place, 1)>>),
                                 Undefined, Undefined)>>, Undefined) :
             place \in EscapeTexts}

\* texts whose escaped forms are close to one another
Confusables ==
    {<<"\n">>, <<"\\", "n">>, <<"\\", "\\", "n">>, <<"\\", "\n">>, <<"n">>,
     <<"\\">>, <<"\\", "\\">>, <<",">>, <<"\\", ",">>, <<"\\", ";">>}

\* two morning activities at two such places
EscapePairPayloads ==
    {Payload(<<ItineraryDay(Day1215, 1,
                            Def(<<Activity(Louvre, first, 1),
                                  Activity(Louvre, second, 1)>>),
                            Undefined, Undefined)>>, Undefined) :
        first \in EscapeTexts, second \in Confusables}

\* one slot of one day with activities of one, one and a half or two and a
\* half hours
FractionalLists ==
    UNION {[1..n -> {Activity(Louvre, Paris, 1), ActivityAndAHalf(Louvre, Paris, 1),
                     ActivityAndAHalf(Seine, Paris, 2),
                     ActivityAndAHalf(Cruise, Paris, 6)}] : n \in 1..MaxActs}

FractionalPayloads ==
    {Payload(<<ItineraryDay(Day1215, 1,
                            IF slot = "morning" THEN Def(acts) ELSE Undefined,
                            IF slot = "afternoon" THEN Def(acts) ELSE Undefined,
                            IF slot = "evening" THEN Def(acts) ELSE Undefined)>>,
             Undefined) :
        slot \in Slots, acts \in FractionalLists}

\* city names with letters, digits, spaces, punctuation and a non-ASCII letter
\* ("e'" stands for the one character U+00E9)
CityAlphabet == {"a", "Z", "7", " ", "_", "-", "e'"}
CityTexts == TextsOver(CityAlphabet, MaxText)

CityPayloads ==
    {[Payload(days, Undefined) EXCEPT !.city = city] :
        city \in CityTexts,
        days \in {<< >>, <<TimingDay(Day1215, "morning", <<1>>)>>}}

\* Departure times of the offers whose legs are exported: timestamps without
\* zone at a skipped and at a repeated local time, at the end of a year and on
\* a leap day, and timestamps in UTC every half hour around the two
\* transitions of 2025 and the end of 2025.
LocalAts ==
    {[year |-> 2025, month |-> 3, day |-> 30, hours |-> 2, minutes |-> 30, z |-> FALSE],
     [year |-> 2025, month |-> 10, day |-> 26, hours |-> 2, minutes |-> 30, z |-> FALSE],
     [year |-> 2025, month |-> 12, day |-> 31, hours |-> 23, minutes |-> 59, z |-> FALSE],
     [year |-> 2024, month |-> 2, day |-> 29, hours |-> 0, minutes |-> 0, z |-> FALSE]}

AtOfInstant(t) ==
    [year |-> UtcFields(t).year, month |-> UtcFields(t).month, day |-> UtcFields(t).day,
     hours |-> UtcFields(t).hours, minutes |-> UtcFields(t).minutes, z |-> TRUE]

UtcAts ==
    {AtOfInstant(around + k * 30) :
        around \in {UtcDate(2025, 2, 30, 0, 0), UtcDate(2025, 9, 26, 0, 0),
                    UtcDate(2025, 11, 31, 22, 0)},
        k \in 0..5}

RoundTripAts == LocalAts \cup UtcAts

\* the leg the flight search adapter renders for a one-segment itinerary
\* that departs and arrives at the timestamp `at`
LegAt(at, zone) ==
    FlightLeg(OfferOneWay,
              [ItinRet EXCEPT !.segments =
                  <<[SegCdgBog EXCEPT !.departure.at = at, !.arrival.at = at]>>],
              Carriers, zone)

RoundTripPayloads(zone) ==
    {Payload(<< >>, Def([outbound |-> Def(LegAt(at, zone)), return |-> Undefined])) :
        at \in RoundTripAts}

ValidActivities(list) ==
    list.def =>
        \A i \in 1..Len(list.v) :
            /\ Len(list.v[i].activity) >= 1
            /\ Len(list.v[i].location) >= 1
            /\ list.v[i].durationInHours >= 1

\* CalendarExportSchema.parse(req.body) does not throw
ValidExport(data) ==
    /\ \A i \in 1..Len(data.itinerary.days) :
        LET day == data.itinerary.days[i]
        IN  /\ ParseDateString(day.dayDate).def
            /\ day.dayNumber >= 1
            /\ ValidActivities(day.morning)
            /\ ValidActivities(day.afternoon)
            /\ ValidActivities(day.evening)
    /\ Len(data.itinerary.arrivalCity.shortName) >= 1
    /\ Len(data.itinerary.arrivalCity.iata) >= 1
    /\ Len(data.itinerary.returnCity.shortName) >= 1
    /\ Len(data.itinerary.returnCity.iata) >= 1

\* the instant at which the server's clock reads 0: 2025-05-20T12:00Z
ServerStart == UtcDate(2025, 4, 20, 12, 0)

\* new Date() when the clock (milliseconds since ServerStart) reads c
NewDate(c) == ServerStart + (c \div 60000)

\* The clock may advance by a millisecond while the document is built: the
\* tick falls after `tick` events have read Date.now(), 0 <= tick <= n (after
\* all of them, before new Date() is read, when tick = n); tick = n + 1 when
\* the clock does not advance.  The reading of Date.now() by the i-th event:
Readings(c, tick, n) == [i \in 1..n |-> IF tick < i THEN c + 1 ELSE c]

\* The handler of POST /api/export-calendar, from its start to the response.
Export ==
    /\ calPc = "received"
    /\ calPc' = "responded"
    /\ IF ~ValidExport(payload.v)
       THEN /\ calResponse' = Def([status |-> 400, error |-> "Validation error"])
            /\ UNCHANGED <<events, clock, exports>>
       ELSE \E built \in {BuildEvents(payload.v, tz)} :
              IF ~built.def
              THEN /\ calResponse' = Def([status |-> 500,
                                          error |-> "Failed to export calendar",
                                          message |-> "Invalid time value"])
                   /\ UNCHANGED <<events, clock, exports>>
              ELSE \E tick \in 0..(Len(built.v) + 1) :
                   \E evs \in {StampEvents(built.v,
                                           Readings(clock, tick, Len(built.v)))} :
                   \E after \in {IF tick <= Len(built.v) THEN clock + 1 ELSE clock} :
                   \E doc \in {Document(evs, NewDate(after))} :
                      /\ events' = evs
                      /\ clock' = after
                      /\ calResponse' =
                           Def([status |-> 200,
                                contentType |-> "text/calendar",
                                filename |-> CalendarFilename(payload.v.city),
                                body |-> doc])
                      /\ exports' = Append(exports, doc)
    /\ UNCHANGED <<payload, tz, planVars, frontVars>>

\* The client posts the same payload once more.
ExportAgain ==
    /\ calPc = "responded"
    /\ Len(exports) < MaxExports
    /\ calPc' = "received"
    /\ calResponse' = Undefined
    /\ events' = << >>
    /\ UNCHANGED <<payload, tz, clock, exports, planVars, frontVars>>

\* A millisecond passes between two requests.
Tick ==
    /\ calPc = "responded"
    /\ clock < MaxClock
    /\ clock' = clock + 1
    /\ UNCHANGED <<calPc, payload, tz, events, calResponse, exports, planVars, frontVars>>

InitCal ==
    /\ tz \in TimeZones
    /\ payload \in {Def(data) : data \in TimingPayloads \cup StructurePayloads(tz)
                                         \cup RefusedPayloads(tz)
                                         \cup EscapePayloads \cup EscapePairPayloads
                                         \cup CityPayloads
                                         \cup RoundTripPayloads(tz)
                                         \cup FractionalPayloads}
    /\ calPc = "received"
    /\ clock = 0
    /\ events = << >>
    /\ calResponse = Undefined
    /\ exports = << >>
    /\ PlanIdle
    /\ FrontIdle

NextCal == Export

SpecCal == InitCal /\ [][NextCal]_vars

\* Repeated exports of one payload
RepeatPayloads(zone) ==
    {Payload(<< >>, Undefined),
     Payload(<<TimingDay(Day1215, "morning", <<3>>)>>, Undefined),
     Payload(<<ItineraryDay(Day1215, 1, DayShapes[3].morning, DayShapes[3].afternoon,
                            DayShapes[3].evening)>>, Def(RoundTrip(zone))),
     Payload(<< >>, Def([outbound |-> RoundTrip(zone).outbound, return |-> Undefined]))}

InitRepeat ==
    /\ tz \in TimeZones
    /\ payload \in {Def(data) : data \in RepeatPayloads(tz)}
    /\ calPc = "received"
    /\ clock = 0
    /\ events = << >>
    /\ calResponse = Undefined
    /\ exports = << >>
    /\ PlanIdle
    /\ FrontIdle

NextRepeat ==
    \/ Export
    \/ ExportAgain
    \/ Tick

SpecRepeat == InitRepeat /\ [][NextRepeat]_vars

----------------------------------------------------------------------------
\* The server with one request of either kind

Init == InitPlan \/ InitCal

Next == NextPlan \/ NextCal

Spec == Init /\ [][Next]_vars

----------------------------------------------------------------------------
\* Properties of POST /api/export-calendar

Exported == calPc = "responded" /\ calResponse.def /\ calResponse.v.status = 200

SlotOf(day, slot) ==
    CASE slot = "morning" -> day.morning
      [] slot = "afternoon" -> day.afternoon
      [] slot = "evening" -> day.evening

\* the (day index, slot, index) of every activity of the payload, 0-based
ActivityPlaces(data) ==
    {<<d, slot, n>> \in (0..(Len(data.itinerary.days) - 1)) \X Slots \X (0..MaxActs) :
        /\ SlotOf(data.itinerary.days[d + 1], slot).def
        /\ n < Len(SlotOf(data.itinerary.days[d + 1], slot).v)}

ActivityAt(data, place) == SlotOf(data.itinerary.days[place[1] + 1], place[2]).v[place[3] + 1]

\* the event generated for the activity at a place
EventAt(place) ==
    CHOOSE e \in {events[i] : i \in 1..Len(events)} :
        e.uid.kind = place[2] /\ e.uid.dayIndex = place[1] /\ e.uid.index = place[3]

\* the sum of the durations of the activities before index n (0-based)
RECURSIVE DurationBefore(_, _)
DurationBefore(list, n) ==
    IF n = 0 THEN 0 ELSE list[n].durationInHours + DurationBefore(list, n - 1)

\* local midnight of a day's dayDate plus a number of hours
HoursIntoDay(day, hours) ==
    FormatDateForICS(DayDateOf(day, tz) + 60 * hours)

\* C1: for activity lists with integer durations >= 1, the Nth activity
\* (0-indexed) of a slot starts at local midnight of dayDate plus the slot's
\* base hour (9, 13, 18) plus the sum of the durations of activities 0..N-1
\* of that slot, so each activity begins when the preceding activity of its
\* slot ends.
C1_BackToBackStart ==
    Exported =>
        \A place \in ActivityPlaces(payload.v) :
            LET day == payload.v.itinerary.days[place[1] + 1]
                list == SlotOf(day, place[2]).v
                base == CASE place[2] = "morning" -> 9
                          [] place[2] = "afternoon" -> 13
                          [] place[2] = "evening" -> 18
            IN  (\A i \in 1..Len(list) : ~list[i].half) =>
                /\ EventAt(place).dtstart =
                     HoursIntoDay(day, base + DurationBefore(list, place[3]))
                /\ place[3] > 0 =>
                     EventAt(place).dtstart =
                         EventAt(<<place[1], place[2], place[3] - 1>>).dtend

\* the lines of a document with a given name, in document order
LinesNamed(doc, name) == SelectSeq(doc, LAMBDA line : line.name = name)

\* the UIDs of the VEVENT blocks of a document, in document order
BlockUids(doc) ==
    LET lines == LinesNamed(doc, "UID")
    IN  [i \in 1..Len(lines) |-> lines[i].value]

\* the position of an event in the order the specification fixes: flights
\* before activities, outbound before return, days in itinerary order,
\* morning before afternoon before evening, activities in list order
OrderKey(uid) ==
    IF uid.kind = "outbound-flight" THEN <<0, 0, 0, 0>>
    ELSE IF uid.kind = "return-flight" THEN <<0, 0, 0, 1>>
    ELSE <<1, uid.dayIndex,
           CASE uid.kind = "morning" -> 0 [] uid.kind = "afternoon" -> 1
             [] uid.kind = "evening" -> 2,
           uid.index>>

RECURSIVE KeyLess(_, _)
KeyLess(a, b) ==
    /\ a # << >>
    /\ \/ Head(a) < Head(b)
       \/ (Head(a) = Head(b) /\ KeyLess(Tail(a), Tail(b)))

\* the block of an event in a document: the nine lines from its BEGIN
BlockOf(doc, k) == SubSeq(doc, 4 + 9 * (k - 1) + 1, 4 + 9 * k)

\* C10: the VEVENT blocks of a generated calendar appear in a fixed order:
\* the outbound flight (if present), the return flight (if present), then for
\* each day in itinerary order its morning, afternoon and evening activities,
\* each slot's activities in list order.
C10_EventOrder ==
    Exported =>
        LET doc == calResponse.v.body
            uids == BlockUids(doc)
            data == payload.v
        IN  /\ \A i, j \in 1..Len(uids) :
                 i < j => KeyLess(OrderKey(uids[i]), OrderKey(uids[j]))
            /\ {<<uids[i].dayIndex, uids[i].kind, uids[i].index>> :
                  i \in {k \in 1..Len(uids) : uids[k].kind \in Slots}}
                 = ActivityPlaces(data)
            /\ (\E i \in 1..Len(uids) : uids[i].kind = "outbound-flight")
                 <=> PayloadOutbound(data).def
            /\ (\E i \in 1..Len(uids) : uids[i].kind = "return-flight")
                 <=> PayloadReturn(data).def
            /\ \A i \in 1..Len(uids) :
                 uids[i].kind \in Slots =>
                    BlockOf(doc, i)[7].value =
                        EscapeICSText(ActivityAt(data, <<uids[i].dayIndex, uids[i].kind,
                                                         uids[i].index>>).location)

\* a document with both flights and two days, the first with all three
\* slots filled and two morning activities
C10_Witness ==
    /\ Exported
    /\ PayloadOutbound(payload.v).def /\ PayloadReturn(payload.v).def
    /\ Len(payload.v.itinerary.days) = 2
    /\ payload.v.itinerary.days[1].morning.def
    /\ Len(payload.v.itinerary.days[1].morning.v) = 2
    /\ payload.v.itinerary.days[1].evening.def
    /\ payload.v.itinerary.days[2].evening.def
    /\ Len(payload.v.itinerary.days[2].evening.v) = 2
    /\ Len(BlockUids(calResponse.v.body)) = 9

\* the kinds of the flight events of a document, in document order
FlightKinds(doc) ==
    LET uids == BlockUids(doc)
    IN  SelectSeq([i \in 1..Len(uids) |-> uids[i].kind],
                  LAMBDA k : k \in {"outbound-flight", "return-flight"})

\* a display date DD/MM/YYYY and a display time HH:MM
DisplayDate(s) ==
    /\ Len(s) = 10
    /\ s[3] = "/" /\ s[6] = "/"
    /\ \A i \in {1, 2, 4, 5, 7, 8, 9, 10} : IsDigit(s[i])

DisplayTime(s) ==
    /\ Len(s) = 5
    /\ s[3] = ":"
    /\ \A i \in {1, 2, 4, 5} : IsDigit(s[i])

DisplayLeg(leg) ==
    /\ DisplayDate(leg.departure.date) /\ DisplayTime(leg.departure.time)
    /\ DisplayDate(leg.arrival.date) /\ DisplayTime(leg.arrival.time)

\* the flights bundle of the payload has exactly one leg, which is `kind`
OnlyLeg(data, kind) ==
    /\ data.flights.def
    /\ IF kind = "return-flight"
       THEN /\ ~data.flights.v.outbound.def
            /\ data.flights.v.return.def
            /\ DisplayLeg(data.flights.v.return.v)
       ELSE /\ data.flights.v.outbound.def
            /\ ~data.flights.v.return.def
            /\ DisplayLeg(data.flights.v.outbound.v)

\* C11: calendar generation for a flights bundle with only one leg present
\* (only the return leg, or only the outbound leg) does not throw, and the
\* document contains exactly one flight event, the one of that leg.
C11_OneLegOneFlightEvent ==
    \A kind \in {"outbound-flight", "return-flight"} :
        (calPc = "responded" /\ ValidExport(payload.v) /\ OnlyLeg(payload.v, kind)) =>
            /\ calResponse.v.status = 200
            /\ FlightKinds(calResponse.v.body) = <<kind>>

\* an export of a two-day itinerary with a return leg and no outbound leg
C11_Witness ==
    /\ Exported
    /\ OnlyLeg(payload.v, "return-flight")
    /\ Len(payload.v.itinerary.days) = 2
    /\ Len(BlockUids(calResponse.v.body)) > 1

\* what the iCalendar escaping makes of one character
EscapedChar(c) ==
    CASE c = "\\" -> <<"\\", "\\">>
      [] c = "," -> <<"\\", ",">>
      [] c = ";" -> <<"\\", ";">>
      [] c = "\n" -> <<"\\", "n">>
      [] OTHER -> <<c>>

\* a text escaped character by character
RECURSIVE Charwise(_)
Charwise(text) ==
    IF text = << >> THEN << >> ELSE EscapedChar(Head(text)) \o Charwise(Tail(text))

\* C12: escaping replaces every backslash by two backslashes, every comma by
\* backslash-comma, every semicolon by backslash-semicolon and every newline
\* by backslash-n; an inserted backslash is not escaped again (no input
\* character yields more than two output characters); summary, description
\* and location of every event are escaped independently.
C12_EscapeCharwise ==
    Exported =>
        \A k \in 1..Len(events) :
            LET block == BlockOf(calResponse.v.body, k)
            IN  /\ block[5] = Line("SUMMARY", Charwise(events[k].summary))
                /\ block[6] = Line("DESCRIPTION", Charwise(events[k].description))
                /\ block[7] = Line("LOCATION", Charwise(events[k].location))
                /\ Len(block[5].value) <= 2 * Len(events[k].summary)
                /\ Len(block[6].value) <= 2 * Len(events[k].description)
                /\ Len(block[7].value) <= 2 * Len(events[k].location)

\* an event whose location holds a backslash, a comma, a semicolon and a
\* newline, and whose summary holds a comma after a backslash
C12_Witness ==
    /\ Exported
    /\ Len(events) = 1
    /\ events[1].location = AllFour
    /\ \E i \in 1..(Len(events[1].summary) - 1) :
          events[1].summary[i] = "\\" /\ events[1].summary[i + 1] = ","
    /\ BlockOf(calResponse.v.body, 1)[7].value =
          <<"\\", "\\", "\\", ",", "\\", ";", "\\", "n">>

\* ASCII letters and digits
Letters ==
    <<"a", "b", "c", "d", "e", "f", "g", "h", "i", "j", "k", "l", "m",
      "n", "o", "p", "q", "r", "s", "t", "u", "v", "w", "x", "y", "z">>
Capitals ==
    <<"A", "B", "C", "D", "E", "F", "G", "H", "I", "J", "K", "L", "M",
      "N", "O", "P", "Q", "R", "S", "T", "U", "V", "W", "X", "Y", "Z">>
LetterOrDigit(c) ==
    \/ \E i \in 1..26 : c = Letters[i] \/ c = Capitals[i]
    \/ IsDigit(c)

FilenameSuffix ==
    <<"_", "i", "t", "i", "n", "e", "r", "a", "r", "y", ".", "i", "c", "s">>

\* C13: the filename is the city with each character that is not an ASCII
\* letter or digit replaced by one underscore, followed by "_itinerary.ics":
\* the part before the suffix has the length of the city and holds only ASCII
\* letters, digits and underscores, and it is a function of the city alone.
C13_FilenameDerivation ==
    Exported =>
        LET name == calResponse.v.filename
            city == payload.v.city
        IN  /\ Len(name) = Len(city) + Len(FilenameSuffix)
            /\ SubSeq(name, Len(city) + 1, Len(name)) = FilenameSuffix
            /\ \A i \in 1..Len(city) :
                 /\ LetterOrDigit(city[i]) => name[i] = city[i]
                 /\ ~LetterOrDigit(city[i]) => name[i] = "_"
                 /\ LetterOrDigit(name[i]) \/ name[i] = "_"

\* a city with two adjacent characters that are replaced, one a non-ASCII
\* letter
C13_Witness ==
    /\ Exported
    /\ payload.v.city = <<"e'", " ">>
    /\ calResponse.v.filename = <<"_", "_">> \o FilenameSuffix

\* the timestamps an offer may carry for a leg
KnownAts == RoundTripAts \cup {At0905, At1940, At2115, At2350, At1030, At1545}

\* C14: round trip of flight timestamps: an instant rendered as the flight
\* adapter does (DD/MM/YYYY and HH:MM) and parsed back by parseDateTime is
\* the original instant, to the minute.  Stated for the outbound leg of an
\* exported payload: every instant whose rendering is the leg's departure
\* date and time is the instant of the event's DTSTART.
C14_RoundTrip ==
    (Exported /\ PayloadOutbound(payload.v).def) =>
        \A at \in KnownAts :
            LET t == DateOfAt(at, tz)
                leg == PayloadOutbound(payload.v).v
            IN  (/\ ToLocaleDateString(t, tz) = leg.departure.date
                 /\ ToLocaleTimeString(t, tz) = leg.departure.time)
                => events[1].dtstart = FormatDateForICS(t)

\* the number of legs of the payload's flights bundle
LegCount(data) ==
    (IF PayloadOutbound(data).def THEN 1 ELSE 0)
    + (IF PayloadReturn(data).def THEN 1 ELSE 0)

\* the payload has no flights and one day, whose only activity is one
\* morning activity
SingleMorning(data) ==
    /\ LegCount(data) = 0
    /\ Len(data.itinerary.days) = 1
    /\ ActivityPlaces(data) = {<<0, "morning", 0>>}

\* C15: the document holds exactly one VEVENT per present flight leg plus
\* one per activity and no others, inside one calendar wrapper; one day with
\* a single morning activity of duration d (a number of hours >= 1) and no
\* flights yields exactly one VEVENT from local 09:00 to local 09:00 + d
\* hours of the dayDate; no activities and no flights yield the wrapper with
\* zero events.
C15_OneEventPerLegAndActivity ==
    Exported =>
        LET doc == calResponse.v.body
            data == payload.v
            n == LegCount(data) + Cardinality(ActivityPlaces(data))
        IN  /\ Len(SelectSeq(doc, LAMBDA l : l.name = "BEGIN" /\ l.value = "VEVENT")) = n
            /\ Len(SelectSeq(doc, LAMBDA l : l.name = "END" /\ l.value = "VEVENT")) = n
            /\ Len(LinesNamed(doc, "UID")) = n
            /\ Len(LinesNamed(doc, "DTSTART")) = n
            /\ Len(doc) = 5 + 9 * n
            /\ doc[1] = Line("BEGIN", "VCALENDAR")
            /\ doc[Len(doc)] = Line("END", "VCALENDAR")
            /\ Len(SelectSeq(doc, LAMBDA l : /\ l.name \in {"BEGIN", "END"}
                                              /\ l.value = "VCALENDAR")) = 2
            /\ SingleMorning(data) =>
                 LET day == data.itinerary.days[1]
                     act == day.morning.v[1]
                     d == 60 * act.durationInHours + (IF act.half THEN 30 ELSE 0)
                 IN  /\ LinesNamed(doc, "DTSTART")[1].value = HoursIntoDay(day, 9)
                     /\ LinesNamed(doc, "DTEND")[1].value =
                          FormatDateForICS(DayDateOf(day, tz) + 60 * 9 + d)
            /\ n = 0 =>
                 doc = <<Line("BEGIN", "VCALENDAR"), Line("VERSION", "2.0"),
                         Line("PRODID", "-//Travel Itinerary//EN"),
                         Line("CALSCALE", "GREGORIAN"), Line("END", "VCALENDAR")>>

\* the UID texts of a document
UidTexts(doc) == {UidText(BlockUids(doc)[i]) : i \in 1..Len(BlockUids(doc))}

\* C16: two exports of the same itinerary never collide on event ids: no
\* UID of one generated document equals a UID of another one generated from
\* the same payload.
C16_NoUidCollisionAcrossExports ==
    \A i, j \in 1..Len(exports) :
        i < j => UidTexts(exports[i]) \cap UidTexts(exports[j]) = {}

\* C17: within one generated document all event UIDs are pairwise distinct,
\* whatever the itinerary, the flights bundle and the readings of the clock.
C17_UidsDistinctInDocument ==
    Exported =>
        LET uids == BlockUids(calResponse.v.body)
        IN  \A i, j \in 1..Len(uids) :
                i # j => UidText(uids[i]) # UidText(uids[j])

\* a document with both flights and two activities in one slot, all of
\* whose events read the same value of the clock
C17_Witness ==
    /\ Exported
    /\ LegCount(payload.v) = 2
    /\ \E place \in ActivityPlaces(payload.v) : place[3] = 1
    /\ \A k \in 1..Len(events) : events[k].uid.now = clock

\* C18: the calendar generator is a pure function of its input: two
\* generations from the same payload yield the same document text, whenever
\* each of them runs.
C18_SameDocumentEachTime ==
    \A i, j \in 1..Len(exports) : exports[i] = exports[j]

\* a number can be read at the start of the k-th field (0-based) of a
\* display string split at `sep`
FieldIsNumber(text, sep, k) ==
    /\ Len(Split(text, sep)) > k
    /\ Split(text, sep)[k + 1] # << >>
    /\ IsDigit(Split(text, sep)[k + 1][1])

\* a display date and time that give day, month, year, hours and minutes
Parseable(date, time) ==
    /\ \A k \in 0..2 : FieldIsNumber(date, "/", k)
    /\ \A k \in 0..1 : FieldIsNumber(time, ":", k)

\* a leg of the payload whose departure or arrival cannot be parsed back
\* into a timestamp
HasUnparseableLeg(data) ==
    \E leg \in {PayloadOutbound(data), PayloadReturn(data)} :
        /\ leg.def
        /\ \/ ~Parseable(leg.v.departure.date, leg.v.departure.time)
           \/ ~Parseable(leg.v.arrival.date, leg.v.arrival.time)

\* C20: on export-calendar a payload failing schema validation is answered
\* with a validation error (400) and no document; a flight leg whose display
\* date or time cannot be parsed back into a timestamp makes generation fail
\* and is answered with an export failure (500) carrying the underlying
\* error message; in neither case is an ICS document, or a part of one, sent.
C20_ExportFailures ==
    calPc = "responded" =>
        /\ ~ValidExport(payload.v) =>
             /\ calResponse.v = [status |-> 400, error |-> "Validation error"]
             /\ exports = << >>
        /\ (ValidExport(payload.v) /\ HasUnparseableLeg(payload.v)) =>
             /\ calResponse.v = [status |-> 500, error |-> "Failed to export calendar",
                                 message |-> "Invalid time value"]
             /\ exports = << >>
        /\ calResponse.v.status = 200 =>
             /\ ValidExport(payload.v)
             /\ ~HasUnparseableLeg(payload.v)

\* an export failure for a payload whose outbound leg and activity are
\* well-formed and whose return leg has a time without minutes
C20_Witness ==
    /\ calPc = "responded"
    /\ calResponse.v.status = 500
    /\ PayloadOutbound(payload.v).def
    /\ DisplayLeg(PayloadOutbound(payload.v).v)
    /\ PayloadReturn(payload.v).def
    /\ PayloadReturn(payload.v).v.arrival.time = <<"1", "0">>
    /\ Len(payload.v.itinerary.days) = 1

\* The responses a request can get when it runs alone with the body and the
\* collaborator answers recorded in st: the validation error; the error of
\* whichever of the normalizer and the resolver failed; the error of the
\* generator; or the success response built from its own answers.
AloneResponses(st) ==
    IF ~ValidInput(st.body) THEN {ErrorResponse("ZodError")}
    ELSE LET failures ==
                 {ErrorResponse(st.normResult.error) :
                      x \in IF st.normCall = "rejected" THEN {1} ELSE {}}
                 \cup {ErrorResponse(GetDepartureAirport(st.airportAnswer.v).error) :
                          x \in IF st.resvCall = "rejected" THEN {1} ELSE {}}
         IN  IF failures # {} THEN failures
             ELSE IF ~st.genResult.ok THEN {ErrorResponse(st.genResult.error)}
             ELSE IF ~st.genResult.value.output_parsed.def
             THEN {ErrorResponse("TypeError")}
             ELSE {SuccessResponse(
                     st.genResult.value,
                     st.normResult.value.output_parsed,
                     GetDepartureAirport(st.airportAnswer.v).value,
                     IF st.amadeusAnswer.def
                     THEN GetFlightOptions(st.amadeusAnswer.v, tz).value
                     ELSE Undefined,
                     st.body)}

\* the requests in progress
Requests == {Running} \cup (IF other.def THEN {other.v} ELSE {})

\* C19: plan-trip requests are independent: for any interleaving of the
\* steps of two concurrent requests, the response of each is the response
\* it gets when it runs alone with the same collaborator answers; nothing
\* written while handling one request is read while handling the other.
C19_RequestsIndependent ==
    \A st \in Requests :
        /\ st.pc = "responded" =>
             /\ Len(st.responses) = 1
             /\ st.responses[1] \in AloneResponses(st)
        /\ st.pc # "responded" => st.responses = << >>
        /\ st.flights \in {Undefined} \cup
             (IF st.amadeusAnswer.def
              THEN {GetFlightOptions(st.amadeusAnswer.v, tz).value} ELSE {})

\* both requests answered with success, one with flights and one without,
\* the first to arrive being the last to be answered
C19_Witness ==
    /\ other.def
    /\ pc = "responded" /\ other.v.pc = "responded"
    /\ body.city = Def(Paris) /\ other.v.body.city = Def(Bogota)
    /\ responses[1].status = 200 /\ other.v.responses[1].status = 200
    /\ responses[1].flights = Undefined
    /\ other.v.responses[1].flights.def

----------------------------------------------------------------------------
\* The flight search adapter

\* the offer source answered with at least one offer
HasOffers(answer) ==
    /\ ~answer.threw
    /\ answer.result.def
    /\ answer.result.v.data.def
    /\ Len(answer.result.v.data.v) > 0

\* the offers of an answer that has some
OffersOf(answer) == answer.result.v.data.v

\* the answer with its offers replaced by data
WithOffers(answer, data) ==
    [answer EXCEPT !.result = Def([answer.result.v EXCEPT !.data = Def(data)])]

\* the adapter has returned after asking the offer source
Searched == flightCall = "done" /\ amadeusAnswer.def

\* C21: when the offer source returns one or more offers, the result of the
\* adapter is derived from the first offer only: with the later offers
\* changed, reordered or removed the returned bundle is the same.
C21_FirstOfferOnly ==
    (Searched /\ HasOffers(amadeusAnswer.v)) =>
        \A later \in OfferLists :
            flights = GetFlightOptions(
                          WithOffers(amadeusAnswer.v,
                                     <<OffersOf(amadeusAnswer.v)[1]>> \o later),
                          tz).value

\* a one-way offer came first and a round trip second: the bundle has no
\* return leg
C21_Witness ==
    /\ Searched /\ HasOffers(amadeusAnswer.v)
    /\ OffersOf(amadeusAnswer.v) = <<OfferOneWay, OfferRound>>
    /\ amadeusAnswer.v.result.v.dictionaries.def
    /\ flights.def /\ ~flights.v.return.def

\* the leg was read from the itinerary: its airports and its duration
LegOf(leg, itin) ==
    /\ leg.def
    /\ leg.v.departure.airport = itin.segments[1].departure.iataCode
    /\ leg.v.arrival.airport = itin.segments[Len(itin.segments)].arrival.iataCode
    /\ leg.v.duration = LegDuration(itin.duration)

\* a well-formed one-way offer: exactly one itinerary, which has segments
OneWay(offer) ==
    Len(offer.itineraries) = 1 /\ Len(offer.itineraries[1].segments) > 0

\* C22: the outbound leg of the bundle is the first itinerary of the
\* selected offer and the return leg is its second itinerary if there is
\* one; a one-way offer gives a bundle with the outbound leg present and the
\* return leg undefined, without failing.
C22_ItineraryDecomposition ==
    Searched =>
        /\ flights.def =>
             LET itins == OffersOf(amadeusAnswer.v)[1].itineraries
             IN  /\ Len(itins) >= 1
                 /\ LegOf(flights.v.outbound, itins[1])
                 /\ IF Len(itins) >= 2 THEN LegOf(flights.v.return, itins[2])
                    ELSE flights.v.return = Undefined
        /\ ( /\ HasOffers(amadeusAnswer.v)
             /\ OneWay(OffersOf(amadeusAnswer.v)[1])
             /\ amadeusAnswer.v.result.v.dictionaries.def )
           => (flights.def /\ flights.v.outbound.def /\ flights.v.return = Undefined)

\* a one-way offer alone was reduced to a bundle
C22_Witness ==
    /\ Searched /\ HasOffers(amadeusAnswer.v)
    /\ OffersOf(amadeusAnswer.v) = <<OfferOneWay>>
    /\ flights.def /\ flights.v.outbound.def /\ flights.v.return = Undefined
    /\ flights.v.outbound.v.arrival.airport = CDG

\* every field of the leg is filled
Filled(leg) ==
    /\ Len(leg.price) > 0 /\ Len(leg.duration) > 0 /\ Len(leg.airline) > 0
    /\ Len(leg.departure.date) > 0 /\ Len(leg.departure.time) > 0
    /\ Len(leg.departure.airport) > 0
    /\ Len(leg.arrival.date) > 0 /\ Len(leg.arrival.time) > 0
    /\ Len(leg.arrival.airport) > 0

\* the first offer has no itineraries, one of its first two itineraries has
\* no segments, or the response has no carrier dictionary
Unreadable(answer) ==
    LET itins == OffersOf(answer)[1].itineraries
    IN  \/ Len(itins) = 0
        \/ \E i \in 1..2 : i <= Len(itins) /\ Len(itins[i].segments) = 0
        \/ ~answer.result.v.dictionaries.def

----------------------------------------------------------------------------
\* The join of the normalizer call and the airport resolver call

\* the handler has gone past the await of Promise.all
PastJoin == flightCall # "none" \/ genCall # "none"

\* C23: the normalizer call and the airport resolver call are both issued
\* before the handler waits on either; the handler goes past the join only
\* when both have completed, whichever finished first, and what it goes on
\* with is taken from the two results, not from their order.
C23_ConcurrentJoin ==
    /\ pc = "join" => (normCall # "none" /\ resvCall # "none")
    /\ PastJoin => (normCall = "fulfilled" /\ resvCall = "fulfilled")
    /\ (PastJoin /\ flightArgs.def) =>
         /\ flightArgs.v.departureAirportIata = resvResult.value.iata
         /\ flightArgs.v.destinationIata =
              normResult.value.output_parsed.v.arrivalCity.iata
    /\ (pc = "join" /\ normCall = "fulfilled") => resvCall = "pending"
    /\ (pc = "join" /\ resvCall = "fulfilled") => normCall = "pending"

\* both calls are in flight
C23_Witness ==
    pc = "join" /\ normCall = "pending" /\ resvCall = "pending"

----------------------------------------------------------------------------
\* The flight search step of the handler

\* Promise.all has fulfilled
Joined == normCall = "fulfilled" /\ resvCall = "fulfilled"

\* flightsDataResponse.output_parsed?.arrivalCity?.iata is truthy
HasArrivalIata == Truthy(IataOf(ArrivalCityOf(normResult.value.output_parsed)))

\* C24: once the normalizer and the resolver have answered, the flight
\* search adapter is invoked exactly once if the normalizer's output has a
\* non-empty arrival IATA code and not at all otherwise; it receives the
\* resolver's departure IATA, the normalizer's arrival IATA and the
\* normalizer's arrival and return dates; when it is not invoked, flights
\* is undefined and the itinerary generator is called all the same.
C24_FlightSearchStep ==
    /\ [](Joined =>
            IF HasArrivalIata
            THEN /\ flightCall # "none"
                 /\ flightArgs =
                      Def([departureAirportIata |-> resvResult.value.iata,
                           destinationIata |->
                             normResult.value.output_parsed.v.arrivalCity.iata,
                           departureDate |->
                             normResult.value.output_parsed.v.arrivalDate,
                           returnDate |->
                             normResult.value.output_parsed.v.returnDate])
            ELSE /\ flightCall = "none" /\ flightArgs = Undefined
                 /\ amadeusCall = "none"
                 /\ flights = Undefined
                 /\ genCall # "none")
    /\ [](~Joined => (flightCall = "none" /\ amadeusCall = "none"))
    /\ [][/\ flightCall # "none" => (flightCall' # "none" /\ flightArgs' = flightArgs)
          /\ flightCall = "done" => flightCall' = "done"
          /\ amadeusCall = "done" => amadeusCall' = "done"]_vars

\* the adapter was invoked and the request went on with its bundle
C24_Witness ==
    /\ Joined /\ HasArrivalIata
    /\ flightCall = "done" /\ amadeusCall = "done"
    /\ flights.def
    /\ genCall = "pending"

----------------------------------------------------------------------------
\* Activities that start after the end of their day

\* the slot's base hour plus the offset of the activity at index n (0-based)
\* of the list, in minutes: n times the activity's duration
OffsetMinutes(slot, list, n) ==
    60 * (SlotBaseHour(slot) + n * list[n + 1].durationInHours)
    + (IF list[n + 1].half THEN 30 * n ELSE 0)

\* durationInHours in minutes
DurationMinutes(activity) ==
    60 * activity.durationInHours + (IF activity.half THEN 30 ELSE 0)

\* C25: when a slot's base hour plus the offset of an activity reaches or
\* exceeds 24, the start is not clamped and the activity is not moved to the
\* next day: the event is emitted under the same day index, it starts at
\* local midnight of dayDate plus that many hours and it ends
\* durationInHours hours after its start.
C25_PastMidnight ==
    Exported =>
        \A place \in ActivityPlaces(payload.v) :
            LET day == payload.v.itinerary.days[place[1] + 1]
                list == SlotOf(day, place[2]).v
                start == OffsetMinutes(place[2], list, place[3])
                midnight == DayDateOf(day, tz)
            IN  start >= 24 * 60 =>
                  \E i \in 1..Len(events) :
                      /\ events[i].uid.kind = place[2]
                      /\ events[i].uid.dayIndex = place[1]
                      /\ events[i].uid.index = place[3]
                      /\ events[i].dtstart = FormatDateForICS(midnight + start)
                      /\ events[i].dtend =
                           FormatDateForICS(midnight + start
                                            + DurationMinutes(list[place[3] + 1]))

\* the getDepartureAirport() promise has rejected
ResolverRejected == resvCall = "rejected"

\* C27: after the airport resolver has failed, the flight search adapter and
\* the itinerary generator are never invoked for the request, also when the
\* normalizer, which is still in flight, fulfils later; and the error
\* response is sent at the resolver's failure, not at the normalizer's
\* completion.
C27_NoWorkAfterResolverFailure ==
    /\ [](ResolverRejected =>
            /\ pc = "responded"
            /\ Len(responses) = 1
            /\ flightCall = "none" /\ amadeusCall = "none" /\ genCall = "none"
            /\ ~flightArgs.def /\ ~genArgs.def)
    /\ [][ResolverRejected /\ normCall = "pending" /\ normCall' # "pending" =>
            UNCHANGED <<pc, responses, flightCall, flightArgs, amadeusCall,
                        flights, genCall, genArgs>>]_vars

\* the resolver has failed and the response is out while the normalizer is
\* still in flight
C27_Witness ==
    /\ ResolverRejected
    /\ normCall = "pending"
    /\ pc = "responded"
    /\ IsErrorResponse(responses[1])

\* the request was posted without coordinates
WithoutCoordinates == pc # "idle" /\ ~body.lat.def /\ ~body.lng.def

\* no call to the normalizer, the airport lookup, the offer source or the
\* itinerary generator has been made
NoExternalCall ==
    /\ normCall = "none" /\ resvCall = "none"
    /\ flightCall = "none" /\ amadeusCall = "none" /\ genCall = "none"

SpecPlanFair ==
    /\ InitPlan
    /\ [][NextPlan]_vars
    /\ WF_vars(Receive)
    /\ WF_vars(NormalizerSettles)
    /\ WF_vars(ResolverSettles)
    /\ WF_vars(AmadeusSettles)
    /\ WF_vars(GeneratorSettles)

\* the three responses of the plan-trip endpoint
IsPlanResponse(r) ==
    \/ r.status = 200 /\ "itinerary" \in DOMAIN r
    \/ r = [status |-> 400, error |-> "Validation error"]
    \/ r = [status |-> 500, error |-> "Failed to generate itinerary"]

\* C29: when every external call completes, every plan-trip request sends a
\* response, exactly one, and it is the 200 with the itinerary payload, the
\* 400 validation error or the 500 generic failure; once sent, it is never
\* followed by a second response.
C29_ExactlyOneResponse ==
    /\ <>[](Len(responses) = 1 /\ pc = "responded")
    /\ [](Len(responses) <= 1)
    /\ [](\A i \in 1..Len(responses) : IsPlanResponse(responses[i]))

\* every call made for the request has completed, the generator's with an
\* error, and one response is out
C29_Witness ==
    /\ normCall = "fulfilled" /\ resvCall = "fulfilled"
    /\ flightCall = "done" /\ genCall = "done"
    /\ ~genResult.ok
    /\ pc = "responded"
    /\ Len(responses) = 1

\* The reading of an escaped text: backslash-backslash, backslash-comma,
\* backslash-semicolon and backslash-n stand for a backslash, a comma, a
\* semicolon and a newline; every other character stands for itself.
RECURSIVE Unescape(_)
Unescape(text) ==
    IF text = << >> THEN << >>
    ELSE IF Len(text) >= 2 /\ text[1] = "\\" /\ text[2] \in {"\\", ",", ";", "n"}
    THEN <<IF text[2] = "n" THEN "\n" ELSE text[2]>>
         \o Unescape(SubSeq(text, 3, Len(text)))
    ELSE <<text[1]>> \o Unescape(Tail(text))

\* the LOCATION value of the k-th event block of the document sent
LocationValue(k) == BlockOf(calResponse.v.body, k)[7].value

\* C30: escaping is injective and reversible: two events with different
\* locations have different LOCATION values, and unescaping a LOCATION value
\* gives the location back; escaping is not idempotent: escaping a LOCATION
\* value that holds a backslash gives another text.
C30_EscapeReversible ==
    Exported =>
        \A k \in 1..Len(events) :
            /\ Unescape(LocationValue(k)) = events[k].location
            /\ \A j \in 1..Len(events) :
                  events[j].location # events[k].location =>
                      LocationValue(j) # LocationValue(k)
            /\ (\E i \in 1..Len(LocationValue(k)) : LocationValue(k)[i] = "\\") =>
                  EscapeICSText(LocationValue(k)) # LocationValue(k)

\* a newline at one place and a backslash followed by the letter n at the
\* other
C30_Witness ==
    /\ Exported
    /\ Len(events) = 2
    /\ events[1].location = <<"\n">>
    /\ events[2].location = <<"\\", "n">>
    /\ LocationValue(1) = <<"\\", "n">>
    /\ LocationValue(2) = <<"\\", "\\", "n">>

====
